---- MODULE Spec2Model ----
(***************************************************************************)
(* rmpc: the event-coordination core.                                      *)
(*                                                                         *)
(*   main_task        src/src/lib.rs 207-367   the event loop              *)
(*   handle_idle_event src/src/lib.rs 369-444                              *)
(*   idle_task        src/src/lib.rs 446-471   the change listener         *)
(*   RenderLoop       src/src/lib.rs 510-570   the update scheduler        *)
(*   AlbumArtPane     src/src/ui/panes/album_art.rs                        *)
(*                                                                         *)
(* Time is discrete: one unit of `clock` is half a frame budget.           *)
(***************************************************************************)
EXTENDS Integers, Sequences, FiniteSets, TLC

\* ------------------------------------------------------------------ bounds
MaxClock == 3        \* wall-clock ticks explored
MaxEvents == 3       \* events the producers put on the event bus
MaxCalls == 3        \* start()/stop() calls made on the scheduler
MaxTicks == 3        \* RequestStatusUpdate events the scheduler emits
MaxIdleOk == 2       \* successful idle waits of the change listener
MaxQueries == 3      \* album art queries issued by the pane
MaxPlayerEvents == 2 \* player changes reported before main_task's first receive
MaxWork == 2         \* requests submitted to the work pool
MaxIdleEvents == 2   \* idle events of any subsystem queued before the first receive
MaxStrLen == 3       \* characters of a string given to StrExt::escape
MaxFilters == 2      \* filters of a list given to to_query_str
MaxModals == 2       \* modals on the Ui's modal stack
MaxAdds == 2         \* find_add commands sent by the albums screen

\* ------------------------------------------------------- program constants
\* lib.rs 218-219: min_frame_duration = 1 / max_fps, here two clock units
min_frame_duration == 2
\* lib.rs 220: last_render starts 10 s (many frame budgets) in the past
InitialBackdate == 10
\* lib.rs 453: the threshold error_count is compared with
ErrorThreshold == 5

\* ---------------------------------------------------------------- helpers
\* Duration::checked_sub(..).unwrap_or(ZERO) and Duration::saturating_sub
SatSub(a, b) == IF a > b THEN a - b ELSE 0

NoEvent == [kind |-> "None", src |-> "none", n |-> 0, arg |-> "none"]

Producers == {"input", "idle", "sched", "worker", "ctx", "log"}

\* mpd::commands::status::State
PlayerStates == {"Play", "Pause", "Stop"}

\* mpd::commands::idle::IdleEvent, one representative of the arms that do
\* nothing (Database for StoredPlaylist/Database/Update) and one of the
\* unhandled ones (Output for Output .. Mount)
Subsystems == {"Player", "Mixer", "Options", "Playlist", "Database", "Output"}

\* ui::KeyHandleResult plus the Err of the handler's Result
KeyResults == {"SkipRender", "Quit", "RenderRequested", "FullRenderRequested", "Err"}

VARIABLES
    \* ---- event bus (std::sync::mpsc channel of AppEvent, lib.rs 83)
    bus,                  \* events in flight, oldest first
    sent,                 \* per producer: number of events sent
    send_errors,          \* per producer: sends that returned Err (receiver gone)
    applied,              \* per producer: number of events applied by main_task
    \* ---- main_task (lib.rs 207-367)
    pc,                   \* "top" | "recv" | "session" | "exited" | "end"
    cur,                  \* the event whose handler waits for the session
    now,                  \* lib.rs 225
    last_render,          \* lib.rs 220, 361
    render_wanted,        \* lib.rs 216
    full_rerender_wanted, \* lib.rs 217
    status,               \* context.status.state
    queue,                \* context.queue (a version number)
    clock,                \* wall-clock time
    \* ---- observations of main_task
    renders,              \* number of renders performed
    lastRenderAt,         \* wall-clock time of the last render (-1: none yet)
    lastGap,              \* wall-clock time between the last two renders (-1: fewer than two)
    lastRenderFull,       \* whether the last render cleared the buffers
    pendingSince,         \* value of renders when the render became pending
    coalesced,            \* render requests consumed while the render was already pending
    cycle_events,         \* events consumed in the current loop cycle
    ui_event,             \* last UiEvent passed to ui.on_event
    exit_notified,        \* number of UiEvent::Exit deliveries
    exit_result,          \* what ui.on_event(UiEvent::Exit) returned ("none" before it)
    key_result,           \* what the key or mouse handler of this loop cycle returned
    last_reply,           \* result of main_task's last session request ("none": none yet)
    \* ---- RenderLoop (lib.rs 510-570)
    event_tx,             \* TRUE: Some(tx), FALSE: None
    ctl,                  \* the LoopEvent channel
    rl_pc,                \* "absent" | "try_recv" | "stopped" | "sleep"
    ticks,                \* RequestStatusUpdate events emitted
    calls,                \* start()/stop() calls made so far
    call_result,          \* result of the last start()/stop() call
    stop_pending,         \* stop() was called while Running and start() not since
    last_call,            \* the last of these calls: "start" | "stop" ("none": none yet)
    \* ---- the same scheduler thread, run in lockstep on the same calls except
    \*      one start() made while it was Running with nothing queued
    forked,               \* that start() has been made
    sh_ctl, sh_pc, sh_ticks,
    \* ---- idle_task (lib.rs 446-471)
    idle_pc,              \* "wait" | "sleep" | "send" | "terminated"
    error_count,          \* lib.rs 447
    idle_batch,           \* events of the current batch not sent yet
    consec_failures,      \* failed idle waits since the last successful one
    last_sleep,           \* seconds slept after the last failure (0: none)
    idle_oks,             \* successful idle waits so far
    idle_reported,        \* every subsystem idle() has returned so far, in order
    \* ---- AlbumArtPane (ui/panes/album_art.rs) and the query path
    image_method,         \* config.album_art.method
    cur_song,             \* the current song found in the queue ("none": none)
    shown,                \* what the AlbumArtFacade displays
    shown_qn,             \* number of the query whose result is displayed (0: none)
    client_rx,            \* ClientRequest channel to the client worker
    inflight,             \* the query the client worker is executing
    query_results,        \* query results on their way to the event loop
    issued,               \* number of queries issued by the pane
    superseded,           \* queries replaced by a later one before their result arrived
    stale_applied,        \* on_query_finished ran with the data of a superseded query
    last_find,            \* the last find_album_art call: command results and its own
    pane_call,            \* the last call that ran fetch_album_art ("none": none yet)
    \* ---- worker_task (lib.rs 184-205)
    cache_dir,            \* TRUE: config.cache_dir is Some
    work_rx,              \* the WorkRequest channel
    worker_pc,            \* "recv" | "handle" | "send"
    work_cur,             \* the request being handled ("none": none)
    work_result,          \* result of handle_work_request ("none": none yet)
    jobs,                 \* per result: requests handled with that result
    done,                 \* per result: AppEvent::WorkDone sends with that result
    \* ---- main_tui (lib.rs 82-157) and the terminal
    boot_pc,              \* position of the main thread in main_tui
    hook_set,             \* the panic hook of lib.rs 145-150 is installed
    proc,                 \* "running" | "ended"
    producer_panicked,    \* a producer thread has panicked
    input_pc,             \* input_poll_task: "poll" | "terminated"
    raw_mode,             \* the terminal is in raw / alternate-screen mode
    \* ---- StrExt::escape and to_query_str (mpd/mpd_client.rs 620-731)
    esc_in,               \* the &str escape is called on
    esc_buf,              \* the String the chain of replace calls has produced so far
    esc_pass,             \* number of replace calls made
    flt_in,               \* the slice of filters to_query_str is called on
    flt_acc,              \* the accumulator of the fold
    flt_idx,              \* number of filters folded
    \* ---- Ui (ui/mod.rs 60-482)
    modals,               \* Ui::modals, the topmost modal last
    ev_screen,            \* Ui::on_event: the screen whose result comes next (0: no call)
    key_target,           \* who was handed the last key: "modal" | "screen" | "global"
    key_depth,            \* position in modals of the modal handed the last key (0: none)
    ui_result,            \* what the last Ui::handle_key returned ("none": none yet)
    \* ---- AlbumsScreen (ui/screens/albums.rs)
    alb_path,             \* stack.path(): the albums entered, the innermost last
    alb_selected,         \* stack.current().selected() ("none": nothing selected)
    alb_added,            \* the title and album filters of the last find_add sent
    alb_adds,             \* number of find_add commands that succeeded
    alb_last              \* the last operation, the depth it found and what it returned

loopVars == <<pc, cur, now, last_render, render_wanted, full_rerender_wanted, status, queue>>
obsVars == <<renders, lastRenderAt, lastGap, lastRenderFull, pendingSince, coalesced,
             cycle_events, ui_event, exit_notified, exit_result, key_result, last_reply>>
busVars == <<bus, sent, send_errors, applied>>
schedRest == <<event_tx, rl_pc, ticks, calls, call_result, stop_pending, last_call,
               forked, sh_ctl, sh_pc, sh_ticks>>
schedVars == <<ctl, schedRest>>
idleVars == <<idle_pc, error_count, idle_batch, consec_failures, last_sleep, idle_oks,
              idle_reported>>
artVars == <<image_method, cur_song, shown, shown_qn, client_rx, inflight, query_results,
             issued, superseded, stale_applied,
            last_find, pane_call>>
workVars == <<cache_dir, work_rx, worker_pc, work_cur, work_result, jobs, done>>
bootVars == <<boot_pc, hook_set, proc, producer_panicked, input_pc>>
strVars == <<esc_in, esc_buf, esc_pass, flt_in, flt_acc, flt_idx>>
albVars == <<alb_path, alb_selected, alb_added, alb_adds, alb_last>>
uiVars == <<modals, ev_screen, key_target, key_depth, ui_result, albVars>>
termVars == <<bootVars, raw_mode, strVars, uiVars>>
nonLoopVars == <<schedVars, idleVars, artVars, workVars, termVars>>

vars == <<busVars, loopVars, clock, obsVars, schedVars, artVars, idleVars, workVars, termVars>>

\* =========================================================================
\* Event bus
\* =========================================================================
Ev(kind, src, n, arg) == [kind |-> kind, src |-> src, n |-> n, arg |-> arg]

TotalSent == sent["input"] + sent["idle"] + sent["sched"] + sent["worker"]
             + sent["ctx"] + sent["log"]

\* Sender::send (lib.rs 99, 193, 199, 466, 481, 487, 492, 547): the event is
\* appended to the channel, tagged with the producer and its send number
BusAppend(b, src, kind, arg) == Append(b, Ev(kind, src, sent[src] + 1, arg))

RecvNewest(b) == b[Len(b)]

TotalSendErrors ==
    send_errors["input"] + send_errors["idle"] + send_errors["sched"]
        + send_errors["worker"] + send_errors["ctx"] + send_errors["log"]

\* the Receiver is owned by main_task (lib.rs 207-213): it is dropped when
\* main_task returns or unwinds
ReceiverAlive == pc \notin {"end", "panicked"}

\* Sender::send as the producers call it: Ok while the Receiver exists, Err
\* (and nothing enqueued) once it is dropped
BusSend(src, kind, arg) ==
    IF ReceiverAlive
    THEN /\ bus' = BusAppend(bus, src, kind, arg)
         /\ sent' = [sent EXCEPT ![src] = @ + 1]
         /\ send_errors' = send_errors
    ELSE /\ bus' = bus
         /\ sent' = sent
         /\ send_errors' = [send_errors EXCEPT ![src] = @ + 1]

\* a producer that leaves its loop when a send fails
AfterSendEnds(ok, next) == IF ok THEN next ELSE "terminated"

\* lib.rs 191-202 (try_cont!), 466-468, 481-494, 547-549 (if let Err: the
\* error is logged): the producer goes on with its loop whatever send returned
AfterSend(ok, next) == next

\* Receiver::recv / recv_timeout (lib.rs 228, 238): the oldest event
RecvFrom(b) == Head(b)
RestAfterRecv(b) == Tail(b)

\* status_error! / status_info! (utils::macros): the message reaches the
\* event loop as an AppEvent::Status; `levels` lists the macros a handler ran
RECURSIVE StatusAll(_, _, _)
StatusAll(b, levels, k) ==
    IF levels = <<>> THEN b
    ELSE StatusAll(Append(b, Ev("Status", "log", sent["log"] + k, Head(levels))),
                   Tail(levels), k + 1)

Emit(base, levels) ==
    IF ReceiverAlive
    THEN /\ bus' = StatusAll(base, levels, 1)
         /\ sent' = [sent EXCEPT !["log"] = @ + Len(levels)]
         /\ send_errors' = send_errors
    ELSE /\ bus' = base
         /\ sent' = sent
         /\ send_errors' = [send_errors EXCEPT !["log"] = @ + Len(levels)]

\* =========================================================================
\* main_task: render scheduling (lib.rs 340-363)
\* =========================================================================
\* lib.rs 341: min_frame_duration.saturating_sub(now.duration_since(last_render))
TillNextFrame(n, lr) == SatSub(min_frame_duration, n - lr)

\* lib.rs 229-231: the timeout handed to recv_timeout
RecvTimeoutFor(n, lr) == SatSub(min_frame_duration, n - lr)

RenderKeepsWanted(frw) ==
    /\ full_rerender_wanted' = FALSE
    /\ last_render' = now
    /\ render_wanted' = TRUE
    /\ renders' = renders + 1
    /\ lastRenderAt' = clock
    /\ lastGap' = IF lastRenderAt = -1 THEN -1 ELSE clock - lastRenderAt
    /\ lastRenderFull' = frw

\* lib.rs 345-362: the render itself; frw is full_rerender_wanted on entry
Render(frw) ==
    /\ full_rerender_wanted' = FALSE
    /\ last_render' = now
    /\ render_wanted' = FALSE
    /\ renders' = renders + 1
    /\ lastRenderAt' = clock
    /\ lastGap' = IF lastRenderAt = -1 THEN -1 ELSE clock - lastRenderAt
    /\ lastRenderFull' = frw

\* lib.rs 340-363: rw and frw are the flags as the event's handler left them
RenderStage(rw, frw) ==
    IF rw /\ TillNextFrame(now, last_render) = 0
    THEN Render(frw)
    ELSE /\ render_wanted' = rw
         /\ full_rerender_wanted' = frw
         /\ UNCHANGED <<last_render, renders, lastRenderAt, lastGap, lastRenderFull>>

\* Wall-clock test used only to count the requests of one frame window
WithinBudget == lastRenderAt # -1 /\ clock - lastRenderAt < min_frame_duration

\* Bookkeeping of the render requests that share one render: req says that
\* the event applied in this step asked for a render
ObservePending(req) ==
    IF req /\ ~render_wanted
    THEN pendingSince' = renders /\ coalesced' = 0
    ELSE IF req /\ render_wanted /\ WithinBudget
         THEN coalesced' = coalesced + 1 /\ UNCHANGED pendingSince
         ELSE UNCHANGED <<pendingSince, coalesced>>

\* the event taken from the bus in this step is counted as applied
Take(e) ==
    /\ applied' = [applied EXCEPT ![e.src] = @ + 1]
    /\ cycle_events' = cycle_events + 1

\* end of a loop iteration that falls through to the render stage
EndCycle(rw, frw, req) ==
    /\ RenderStage(rw, frw)
    /\ ObservePending(req)
    /\ pc' = "top"
    /\ cur' = NoEvent

\* a SkipRender arm without its `continue`: the iteration goes on to the
\* render stage
ContinueFallsThrough == EndCycle(render_wanted, full_rerender_wanted, FALSE)

\* `continue` at lib.rs 244 / 264: straight back to the top of the loop
Continue ==
    /\ pc' = "top"
    /\ cur' = NoEvent
    /\ UNCHANGED <<render_wanted, full_rerender_wanted, last_render, renders,
                   lastRenderAt, lastGap, lastRenderFull, pendingSince, coalesced>>

\* a Quit arm that goes through the render stage before it leaves the loop
QuitLoopRendersFirst(exit_ok) ==
    /\ exit_notified' = exit_notified + 1
    /\ exit_result' = IF exit_ok THEN "Ok" ELSE "Err"
    /\ ui_event' = "Exit"
    /\ pc' = "exited"
    /\ cur' = NoEvent
    /\ RenderStage(render_wanted, full_rerender_wanted)
    /\ UNCHANGED <<pendingSince, coalesced>>

\* a loop that stays in the consumption loop when the Exit notification fails
QuitLoopStaysOnError(exit_ok) ==
    /\ exit_notified' = exit_notified + 1
    /\ exit_result' = IF exit_ok THEN "Ok" ELSE "Err"
    /\ ui_event' = "Exit"
    /\ pc' = IF exit_ok THEN "exited" ELSE "top"
    /\ cur' = NoEvent
    /\ UNCHANGED <<render_wanted, full_rerender_wanted, last_render, renders,
                   lastRenderAt, lastGap, lastRenderFull, pendingSince, coalesced>>

\* lib.rs 245-250 / 265-270: UiEvent::Exit is delivered, its error is only
\* logged, then `break`
QuitLoop(exit_ok) ==
    /\ exit_notified' = exit_notified + 1
    /\ exit_result' = IF exit_ok THEN "Ok" ELSE "Err"
    /\ ui_event' = "Exit"
    /\ pc' = "exited"
    /\ cur' = NoEvent
    /\ UNCHANGED <<render_wanted, full_rerender_wanted, last_render, renders,
                   lastRenderAt, lastGap, lastRenderFull, pendingSince, coalesced>>

\* lib.rs 224-225
LoopTop ==
    /\ pc \in {"start", "top"}
    /\ now' = clock
    /\ cycle_events' = 0
    /\ key_result' = "none"
    /\ pc' = "recv"
    /\ UNCHANGED <<busVars, cur, last_render, render_wanted, full_rerender_wanted,
                   status, queue, clock, renders, lastRenderAt, lastGap, lastRenderFull,
                   pendingSince, coalesced, ui_event, exit_notified, exit_result, last_reply,
                   nonLoopVars>>

\* a timeout that forgets the pending render instead of going to the render
\* stage
RecvTimeoutDropsPending ==
    /\ pc = "recv"
    /\ render_wanted
    /\ bus = <<>>
    /\ clock - now >= RecvTimeoutFor(now, last_render)
    /\ render_wanted' = FALSE
    /\ pc' = "top"
    /\ cur' = NoEvent
    /\ UNCHANGED <<busVars, now, status, queue, clock, cycle_events, ui_event,
                   exit_notified, key_result, exit_result, last_reply, nonLoopVars,
                   full_rerender_wanted, last_render, renders, lastRenderAt, lastGap,
                   lastRenderFull, pendingSince, coalesced>>

\* lib.rs 227-236, 340-363: recv_timeout ran out with nothing on the bus
RecvTimeout ==
    /\ pc = "recv"
    /\ render_wanted
    /\ bus = <<>>
    /\ clock - now >= RecvTimeoutFor(now, last_render)
    /\ EndCycle(render_wanted, full_rerender_wanted, FALSE)
    /\ UNCHANGED <<busVars, now, status, queue, clock, cycle_events, ui_event,
                   exit_notified, key_result, exit_result, last_reply, nonLoopVars>>

\* =========================================================================
\* main_task: the handlers (lib.rs 241-339)
\* =========================================================================
ObsRenderVars == <<renders, lastRenderAt, lastGap, lastRenderFull, pendingSince, coalesced>>

\* the handlers that call the session synchronously: ui.handle_key and
\* ui.handle_mouse_event (they are handed the client, ui/mod.rs 256-287),
\* handle_idle_event for Mixer, Options, Player and Playlist (lib.rs 376-428),
\* client.get_status (lib.rs 304) and client.add (lib.rs 318)
IdleNeedsSession(sub) == sub \in {"Mixer", "Options", "Player", "Playlist"}

MayCallSession(e) ==
    \/ e.kind \in {"UserKeyInput", "UserMouseInput"}
    \/ e.kind = "IdleEvent" /\ IdleNeedsSession(e.arg)
    \/ e.kind = "RequestStatusUpdate"
    \/ e.kind = "WorkDone" /\ e.arg = "Ok"

\* lib.rs 241 and the first session request of the handler: main_task sends
\* the request and waits for the session's answer
BeginSessionCall ==
    /\ pc = "recv"
    /\ bus # <<>>
    /\ MayCallSession(RecvFrom(bus))
    /\ cur' = RecvFrom(bus)
    /\ bus' = RestAfterRecv(bus)
    /\ Take(RecvFrom(bus))
    /\ pc' = "session"
    /\ UNCHANGED <<sent, send_errors, now, last_render, render_wanted, full_rerender_wanted, status,
                   queue, clock, ObsRenderVars, ui_event, exit_notified, key_result, exit_result, last_reply,
                   nonLoopVars>>

\* lib.rs 243-282: what main_task does with the handler's result
InputOutcome(base, res) ==
    /\ key_result' = res
    /\ CASE res = "SkipRender" ->
            /\ Continue /\ Emit(base, <<>>) /\ UNCHANGED <<ui_event, exit_notified, exit_result>>
      [] res = "Quit" ->
            /\ \E exit_ok \in BOOLEAN : QuitLoop(exit_ok)
            /\ Emit(base, <<>>)
      [] res = "RenderRequested" ->
            /\ EndCycle(TRUE, full_rerender_wanted, TRUE)
            /\ Emit(base, <<>>) /\ UNCHANGED <<ui_event, exit_notified, exit_result>>
      [] res = "FullRenderRequested" ->
            /\ EndCycle(TRUE, TRUE, TRUE)
            /\ Emit(base, <<>>) /\ UNCHANGED <<ui_event, exit_notified, exit_result>>
      [] res = "Err" ->
            /\ EndCycle(TRUE, full_rerender_wanted, TRUE)
            /\ Emit(base, <<"Error">>) /\ UNCHANGED <<ui_event, exit_notified, exit_result>>

\* lib.rs 243-282: a key or mouse event whose handler needs no session request
HandleInput ==
    /\ pc = "recv"
    /\ bus # <<>>
    /\ RecvFrom(bus).kind \in {"UserKeyInput", "UserMouseInput"}
    /\ Take(RecvFrom(bus))
    /\ \E res \in KeyResults \ {"Err"} : InputOutcome(RestAfterRecv(bus), res)
    /\ UNCHANGED <<now, status, queue, clock, last_reply, nonLoopVars>>

\* lib.rs 243-282: the handler's session request returned
ReplyInput ==
    /\ pc = "session"
    /\ cur.kind \in {"UserKeyInput", "UserMouseInput"}
    /\ \E ok \in BOOLEAN :
         /\ last_reply' = IF ok THEN "Ok" ELSE "Err"
         /\ \E res \in (IF ok THEN {"SkipRender", "RenderRequested"} ELSE {"Err"}) :
               InputOutcome(bus, res)
    /\ UNCHANGED <<applied, cycle_events, now, status, queue, clock, nonLoopVars>>

\* lib.rs 283-286
HandleStatus ==
    /\ pc = "recv"
    /\ bus # <<>>
    /\ RecvFrom(bus).kind = "Status"
    /\ Take(RecvFrom(bus))
    /\ Emit(RestAfterRecv(bus), <<>>)
    /\ EndCycle(TRUE, full_rerender_wanted, TRUE)
    /\ UNCHANGED <<now, status, queue, clock, ui_event, exit_notified, key_result, exit_result, last_reply,
                   nonLoopVars>>

\* lib.rs 287-291
HandleLog ==
    /\ pc = "recv"
    /\ bus # <<>>
    /\ RecvFrom(bus).kind = "Log"
    /\ Take(RecvFrom(bus))
    /\ Emit(RestAfterRecv(bus), <<>>)
    /\ ui_event' = "LogAdded"
    /\ EndCycle(render_wanted, full_rerender_wanted, FALSE)
    /\ UNCHANGED <<now, status, queue, clock, exit_notified, key_result, exit_result, last_reply, nonLoopVars>>

SendLoopEventAlways(tx, chan, sig) == Append(chan, sig)

\* RenderLoop::start / RenderLoop::stop (lib.rs 555-569): the signal is sent
\* when a control channel exists, nothing happens otherwise
SendLoopEvent(tx, chan, sig) == IF tx THEN Append(chan, sig) ELSE chan

\* the arm of handle_idle_event that only logs a warning (lib.rs 434-440)
UnhandledSubsystems ==
    {"Output", "Partition", "Sticker", "Subscription", "Message", "Neighbor", "Mount"}

\* every IdleEvent matched by handle_idle_event (lib.rs 376-440)
IdleEventKinds ==
    {"Mixer", "Options", "Player", "Playlist", "StoredPlaylist", "Database", "Update"}
        \cup UnhandledSubsystems

\* a conversion that has a UiEvent for every IdleEvent
UiEventOfEvery(sub) == sub

\* TryFrom<IdleEvent> for UiEvent (ui/mod.rs 497-512): "none" stands for Err(())
UiEventOf(sub) ==
    IF sub \in {"Player", "Update", "Mixer", "Playlist", "Options", "Database", "StoredPlaylist"}
    THEN sub ELSE "none"

\* lib.rs 296-302: the idle event is forwarded to the UI when it converts;
\* levels are the status messages of handle_idle_event, uiok the UI's result
ForwardIdle(base, sub, levels, uiok) ==
    /\ ui_event' = IF UiEventOf(sub) # "none" THEN UiEventOf(sub) ELSE ui_event
    /\ Emit(base, IF UiEventOf(sub) # "none" /\ ~uiok THEN Append(levels, "Error") ELSE levels)
    /\ EndCycle(TRUE, full_rerender_wanted, TRUE)

\* lib.rs 292-302 with handle_idle_event's arms that need no session
\* (lib.rs 429-441)
HandleIdleEvent ==
    /\ pc = "recv"
    /\ bus # <<>>
    /\ RecvFrom(bus).kind = "IdleEvent"
    /\ ~IdleNeedsSession(RecvFrom(bus).arg)
    /\ Take(RecvFrom(bus))
    /\ \E uiok \in BOOLEAN : ForwardIdle(RestAfterRecv(bus), RecvFrom(bus).arg, <<>>, uiok)
    /\ UNCHANGED <<now, status, queue, clock, exit_notified, key_result, exit_result, last_reply, nonLoopVars>>

\* a Player arm that signals the scheduler from the old snapshot when the
\* refresh failed
IdleEffectSignalsOnFailure(sub, ok, st, q) ==
    /\ status' = IF ok /\ sub \in {"Mixer", "Options", "Player"} THEN st ELSE status
    /\ queue' = IF ok /\ sub = "Playlist" THEN q ELSE queue
    /\ ctl' = IF sub = "Player"
              THEN SendLoopEvent(event_tx, ctl,
                                 IF (IF ok THEN st ELSE status) = "Play" THEN "Start" ELSE "Stop")
              ELSE ctl

IdleEffectNoSignal(sub, ok, st, q) ==
    /\ status' = IF ok /\ sub \in {"Mixer", "Options", "Player"} THEN st ELSE status
    /\ queue' = IF ok /\ sub = "Playlist" THEN q ELSE queue
    /\ ctl' = ctl

\* handle_idle_event (lib.rs 376-428) once the session answered: ok is the
\* request's result, st the fetched player state, q the fetched queue
IdleEffect(sub, ok, st, q) ==
    /\ status' = IF ok /\ sub \in {"Mixer", "Options", "Player"} THEN st ELSE status
    /\ queue' = IF ok /\ sub = "Playlist" THEN q ELSE queue
    /\ ctl' = IF ok /\ sub = "Player"
              THEN SendLoopEvent(event_tx, ctl, IF st = "Play" THEN "Start" ELSE "Stop")
              ELSE ctl

\* lib.rs 292-302 with handle_idle_event's arms that ask the session
ReplyIdleEvent ==
    /\ pc = "session"
    /\ cur.kind = "IdleEvent"
    /\ \E ok \in BOOLEAN, st \in PlayerStates, q \in {0, 1}, uiok \in BOOLEAN :
         /\ IdleEffect(cur.arg, ok, st, q)
         /\ last_reply' = IF ok THEN "Ok" ELSE "Err"
         /\ ForwardIdle(bus, cur.arg, IF ok THEN <<>> ELSE <<"Error">>, uiok)
    /\ UNCHANGED <<applied, cycle_events, now, clock, exit_notified, key_result, exit_result, schedRest,
                   idleVars, artVars, workVars, termVars>>

\* an arm that falls back to the default snapshot when get_status fails
ReplyStatusUpdateResets ==
    /\ pc = "session"
    /\ cur.kind = "RequestStatusUpdate"
    /\ \E ok \in BOOLEAN, st \in PlayerStates :
         /\ status' = IF ok THEN st ELSE "Stop"
         /\ last_reply' = IF ok THEN "Ok" ELSE "Err"
    /\ Emit(bus, <<>>)
    /\ EndCycle(TRUE, full_rerender_wanted, TRUE)
    /\ UNCHANGED <<applied, cycle_events, now, queue, clock, ui_event, exit_notified, key_result,
                   exit_result, nonLoopVars>>

\* lib.rs 303-311
ReplyStatusUpdate ==
    /\ pc = "session"
    /\ cur.kind = "RequestStatusUpdate"
    /\ \E ok \in BOOLEAN, st \in PlayerStates :
         /\ status' = IF ok THEN st ELSE status
         /\ last_reply' = IF ok THEN "Ok" ELSE "Err"
    /\ Emit(bus, <<>>)
    /\ EndCycle(TRUE, full_rerender_wanted, TRUE)
    /\ UNCHANGED <<applied, cycle_events, now, queue, clock, ui_event, exit_notified, key_result,
                   exit_result, nonLoopVars>>

\* lib.rs 312-315
HandleRequestRender ==
    /\ pc = "recv"
    /\ bus # <<>>
    /\ RecvFrom(bus).kind = "RequestRender"
    /\ Take(RecvFrom(bus))
    /\ Emit(RestAfterRecv(bus), <<>>)
    /\ EndCycle(TRUE, RecvFrom(bus).arg = "true", TRUE)
    /\ UNCHANGED <<now, status, queue, clock, ui_event, exit_notified, key_result, exit_result, last_reply,
                   nonLoopVars>>

\* lib.rs 316-327: client.add returned
ReplyWorkDone ==
    /\ pc = "session"
    /\ cur.kind = "WorkDone"
    /\ \E ok \in BOOLEAN :
         /\ Emit(bus, IF ok THEN <<"Info">> ELSE <<"Error">>)
         /\ last_reply' = IF ok THEN "Ok" ELSE "Err"
    /\ EndCycle(render_wanted, full_rerender_wanted, FALSE)
    /\ UNCHANGED <<applied, cycle_events, now, status, queue, clock, ui_event,
                   exit_notified, key_result, exit_result, nonLoopVars>>

\* lib.rs 328-330
HandleWorkFailed ==
    /\ pc = "recv"
    /\ bus # <<>>
    /\ RecvFrom(bus).kind = "WorkDone"
    /\ RecvFrom(bus).arg = "Err"
    /\ Take(RecvFrom(bus))
    /\ Emit(RestAfterRecv(bus), <<"Error">>)
    /\ EndCycle(render_wanted, full_rerender_wanted, FALSE)
    /\ UNCHANGED <<now, status, queue, clock, ui_event, exit_notified, key_result, exit_result, last_reply,
                   nonLoopVars>>

\* lib.rs 331-337
HandleResized ==
    /\ pc = "recv"
    /\ bus # <<>>
    /\ RecvFrom(bus).kind = "Resized"
    /\ Take(RecvFrom(bus))
    /\ Emit(RestAfterRecv(bus), <<>>)
    /\ ui_event' = "Resized"
    /\ EndCycle(TRUE, TRUE, TRUE)
    /\ UNCHANGED <<now, status, queue, clock, exit_notified, key_result, exit_result, last_reply, nonLoopVars>>

\* lib.rs 366
RestoreTerminal ==
    /\ pc = "exited"
    /\ pc' = "end"
    /\ raw_mode' = FALSE
    /\ UNCHANGED <<busVars, cur, now, last_render, render_wanted, full_rerender_wanted,
                   status, queue, clock, obsVars, schedVars, idleVars, artVars, workVars,
                   bootVars>>
    /\ UNCHANGED <<strVars, uiVars>>

MainTask ==
    \/ LoopTop \/ RecvTimeout \/ BeginSessionCall
    \/ HandleInput \/ ReplyInput
    \/ HandleStatus \/ HandleLog
    \/ HandleIdleEvent \/ ReplyIdleEvent
    \/ ReplyStatusUpdate \/ HandleRequestRender
    \/ ReplyWorkDone \/ HandleWorkFailed
    \/ HandleResized \/ RestoreTerminal

\* =========================================================================
\* The producers as main_task sees them, and the clock
\* =========================================================================
\* what each producer thread sends: input_poll_task (lib.rs 481, 487, 492),
\* idle_task (lib.rs 466), the scheduler (lib.rs 547), worker_task
\* (lib.rs 193, 199), the holders of the context's sender (lib.rs 99, 110)
\* and the logger (lib.rs 84)
Sendable ==
    {<<"input", "UserKeyInput", "none">>, <<"input", "UserMouseInput", "none">>,
     <<"input", "Resized", "none">>,
     <<"sched", "RequestStatusUpdate", "none">>,
     <<"worker", "WorkDone", "Ok">>, <<"worker", "WorkDone", "Err">>,
     <<"ctx", "RequestRender", "true">>, <<"ctx", "RequestRender", "false">>,
     <<"log", "Log", "none">>}
    \cup {<<"idle", "IdleEvent", sub>> : sub \in Subsystems}

ProducerSend ==
    /\ TotalSent + TotalSendErrors < MaxEvents
    /\ \E m \in Sendable : BusSend(m[1], m[2], m[3])
    /\ UNCHANGED <<applied, loopVars, clock, obsVars, nonLoopVars>>

Tick ==
    /\ clock < MaxClock
    /\ clock' = clock + 1
    /\ UNCHANGED <<busVars, loopVars, obsVars, nonLoopVars>>

\* =========================================================================
\* RenderLoop, the update scheduler (lib.rs 510-570)
\* =========================================================================
\* the thread is in the update loop (lib.rs 534, 546-549), not in the inner
\* loop that waits for a Start
Running(p) == p \in {"try_recv", "sleep"}

\* a check that empties the control channel and stops when it held a Stop
TryRecvStepDrains(chan) ==
    IF chan = <<>> THEN <<"sleep", chan>>
    ELSE IF \E i \in 1..Len(chan) : chan[i] = "Stop" THEN <<"stopped", <<>>>>
    ELSE <<"sleep", <<>>>>

TryRecvStepIgnoresStop(chan) ==
    IF chan = <<>> THEN <<"sleep", chan>> ELSE <<"sleep", Tail(chan)>>

\* lib.rs 534-544, rx.try_recv() at the top of the update loop: the next
\* position of the thread and what is left in the channel
TryRecvStep(chan) ==
    IF chan = <<>> THEN <<"sleep", chan>>
    ELSE IF Head(chan) = "Stop" THEN <<"stopped", Tail(chan)>>
    ELSE <<"sleep", Tail(chan)>>

StoppedStepAnySignal(chan) == <<"sleep", Tail(chan)>>

\* an inner loop that a Stop sends back to the top of the update loop
StoppedStepStopRestarts(chan) ==
    IF Head(chan) = "Start" THEN <<"sleep", Tail(chan)>> ELSE <<"try_recv", Tail(chan)>>

\* lib.rs 535-539, rx.recv() in the inner loop: only a Start leaves it
StoppedStep(chan) ==
    IF Head(chan) = "Start" THEN <<"sleep", Tail(chan)>> ELSE <<"stopped", Tail(chan)>>

\* one step of the scheduler thread from position p with channel chan having
\* emitted t events: <<position, channel, emitted>>
ThreadStep(p, chan, t) ==
    CASE p = "try_recv" -> <<TryRecvStep(chan)[1], TryRecvStep(chan)[2], t>>
      [] p = "stopped" /\ chan # <<>> -> <<StoppedStep(chan)[1], StoppedStep(chan)[2], t>>
      [] p = "sleep" -> <<"try_recv", chan, t + 1>>
      [] OTHER -> <<p, chan, t>>

\* the lockstep copy takes the step its own position asks for
ShadowStep ==
    /\ sh_pc' = ThreadStep(sh_pc, sh_ctl, sh_ticks)[1]
    /\ sh_ctl' = ThreadStep(sh_pc, sh_ctl, sh_ticks)[2]
    /\ sh_ticks' = ThreadStep(sh_pc, sh_ctl, sh_ticks)[3]

\* lib.rs 534-544
SchedTryRecv ==
    /\ rl_pc = "try_recv"
    /\ rl_pc' = TryRecvStep(ctl)[1]
    /\ ctl' = TryRecvStep(ctl)[2]
    /\ ShadowStep
    /\ UNCHANGED <<busVars, loopVars, clock, obsVars, idleVars, artVars, workVars, termVars,
                   event_tx, ticks, calls,
                   call_result, stop_pending, last_call, forked>>

\* lib.rs 535-539
SchedStoppedRecv ==
    /\ rl_pc = "stopped"
    /\ ctl # <<>>
    /\ rl_pc' = StoppedStep(ctl)[1]
    /\ ctl' = StoppedStep(ctl)[2]
    /\ ShadowStep
    /\ UNCHANGED <<busVars, loopVars, clock, obsVars, idleVars, artVars, workVars, termVars,
                   event_tx, ticks, calls,
                   call_result, stop_pending, last_call, forked>>

\* lib.rs 546-549: the sleep is over and RequestStatusUpdate is sent
SchedTick ==
    /\ rl_pc = "sleep"
    /\ ticks < MaxTicks
    /\ ticks' = ticks + 1
    /\ BusSend("sched", "RequestStatusUpdate", "none")
    /\ rl_pc' = AfterSend(ReceiverAlive, "try_recv")
    /\ ShadowStep
    /\ UNCHANGED <<applied, loopVars, clock, obsVars, idleVars, artVars, workVars, termVars,
                   event_tx, ctl, calls,
                   call_result, stop_pending, last_call, forked>>

\* RenderLoop::start (lib.rs 555-561).  The first start() that finds the
\* thread Running with an empty channel is the one the lockstep copy is not
\* given.
CallStart ==
    /\ calls < MaxCalls
    /\ calls' = calls + 1
    /\ ctl' = SendLoopEvent(event_tx, ctl, "Start")
    /\ call_result' = "Ok"
    /\ stop_pending' = FALSE
    /\ last_call' = "start"
    /\ IF event_tx /\ ~forked /\ Running(rl_pc) /\ ctl = <<>>
       THEN forked' = TRUE /\ UNCHANGED sh_ctl
       ELSE sh_ctl' = SendLoopEvent(event_tx, sh_ctl, "Start") /\ UNCHANGED forked
    /\ UNCHANGED <<busVars, loopVars, clock, obsVars, idleVars, artVars, workVars, termVars,
                   event_tx, rl_pc, ticks,
                   sh_pc, sh_ticks>>

\* RenderLoop::stop (lib.rs 563-569)
CallStop ==
    /\ calls < MaxCalls
    /\ calls' = calls + 1
    /\ ctl' = SendLoopEvent(event_tx, ctl, "Stop")
    /\ sh_ctl' = SendLoopEvent(event_tx, sh_ctl, "Stop")
    /\ call_result' = "Ok"
    /\ stop_pending' = (event_tx /\ Running(rl_pc))
    /\ last_call' = "stop"
    /\ UNCHANGED <<busVars, loopVars, clock, obsVars, idleVars, artVars, workVars, termVars,
                   event_tx, rl_pc, ticks,
                   forked, sh_pc, sh_ticks>>

\* =========================================================================
\* idle_task, the change listener (lib.rs 446-471)
\* =========================================================================
\* the batches idle_client.idle(None) returns
IdleBatches == {<<>>, <<"Player">>, <<"Mixer", "Player">>, <<"Playlist", "Output">>}

\* a for loop that takes the newest event of the batch
NextOfBatchNewest(batch) == batch[Len(batch)]

\* lib.rs 464: `for event in events` takes the events in the order of the Vec
NextOfBatch(batch) == Head(batch)

\* lib.rs 453: the test made on a failed wait, before the counter is raised
GivesUp(count) == count > ErrorThreshold

\* lib.rs 450-451, 464: idle() returned a batch
IdleWaitOk ==
    /\ idle_pc = "wait"
    /\ idle_oks < MaxIdleOk
    /\ idle_oks' = idle_oks + 1
    /\ \E batch \in IdleBatches :
         /\ idle_batch' = batch
         /\ idle_reported' = idle_reported \o batch
         /\ idle_pc' = IF batch = <<>> THEN "wait" ELSE "send"
    /\ consec_failures' = 0
    /\ UNCHANGED <<busVars, loopVars, clock, obsVars, schedVars, artVars, workVars, termVars,
                   error_count, last_sleep>>

\* lib.rs 452-461: idle() failed
IdleWaitErr ==
    /\ idle_pc = "wait"
    /\ consec_failures' = consec_failures + 1
    /\ IF GivesUp(error_count)
       THEN /\ idle_pc' = "terminated"
            /\ UNCHANGED <<error_count, last_sleep>>
       ELSE /\ error_count' = error_count + 1
            /\ last_sleep' = error_count + 1
            /\ idle_pc' = "sleep"
    /\ UNCHANGED <<busVars, loopVars, clock, obsVars, schedVars, artVars, workVars, termVars,
                   idle_batch, idle_oks, idle_reported>>

\* lib.rs 459-460: the backoff sleep is over
IdleSleepDone ==
    /\ idle_pc = "sleep"
    /\ idle_pc' = "wait"
    /\ UNCHANGED <<busVars, loopVars, clock, obsVars, schedVars, artVars, workVars, termVars,
                   error_count, idle_batch, consec_failures, last_sleep, idle_oks,
                   idle_reported>>

\* lib.rs 464-469: one turn of the for loop
IdleSendEvent ==
    /\ idle_pc = "send"
    /\ BusSend("idle", "IdleEvent", NextOfBatch(idle_batch))
    /\ idle_batch' = Tail(idle_batch)
    /\ idle_pc' = AfterSend(ReceiverAlive, IF Tail(idle_batch) = <<>> THEN "wait" ELSE "send")
    /\ UNCHANGED <<applied, loopVars, clock, obsVars, schedVars, artVars, workVars, termVars,
                   error_count, consec_failures, last_sleep, idle_oks, idle_reported>>

\* =========================================================================
\* AlbumArtPane (ui/panes/album_art.rs) and the path of its query
\* =========================================================================
\* album_art.rs 19
ALBUM_ART == "album_art"

Songs == {"A", "B", "H"}

ImageMethods == {"Kitty", "UeberzugWayland", "UeberzugX11", "Iterm2", "Sixel",
                 "Unsupported", "None"}

\* a conversion for which only ImageMethod::None displays nothing
ImageProtocolOfOnlyNone(method) == method

\* config.album_art.method.into(): the conversion is not part of the sources
\* at hand; the cases of album_art.rs 153-160 fix its result
ImageProtocolOf(method) == IF method \in {"Unsupported", "None"} THEN "None" ELSE method

\* album_art.rs 36-41: song H is served over a disabled protocol
ProtocolDisabled(song) == song = "H"

NoQuery == [id |-> "none", replace_id |-> "none", target |-> "none", song |-> "none", qn |-> 0]

\* a query that replaces no earlier one
AlbumArtQueryNoReplace(song, k) ==
    [id |-> ALBUM_ART, replace_id |-> "none", target |-> "AlbumArt", song |-> song, qn |-> k]

\* album_art.rs 44-56: the query the pane builds
AlbumArtQuery(song, k) ==
    [id |-> ALBUM_ART, replace_id |-> ALBUM_ART, target |-> "AlbumArt", song |-> song, qn |-> k]

\* album_art.rs 29-59: whether fetch_album_art sends its query (Some(()))
\* or gives up (None)
FetchSends(method, song) ==
    /\ ImageProtocolOf(method) # "None"
    /\ song # "none"
    /\ ~ProtocolDisabled(song)

\* the queries whose result has not reached the pane yet
PendingQueries ==
    {client_rx[i].qn : i \in 1..Len(client_rx)}
    \cup (IF inflight = NoQuery THEN {} ELSE {inflight.qn})
    \cup {query_results[i].qn : i \in 1..Len(query_results)}

\* album_art.rs 29-59 with its callers' fallback (album_art.rs 85-90, 107-111)
FetchAlbumArt(song) ==
    IF FetchSends(image_method, song)
    THEN /\ client_rx' = Append(client_rx, AlbumArtQuery(song, issued + 1))
         /\ issued' = issued + 1
         /\ superseded' = superseded \cup PendingQueries
         /\ UNCHANGED <<shown, shown_qn>>
    ELSE /\ shown' = "default"
         /\ shown_qn' = 0
         /\ UNCHANGED <<client_rx, issued, superseded>>

\* album_art.rs 85-90
BeforeShow ==
    /\ issued < MaxQueries
    /\ FetchAlbumArt(cur_song)
    /\ pane_call' = "before_show"
    /\ UNCHANGED <<busVars, loopVars, clock, obsVars, schedVars, idleVars, workVars, termVars,
                   image_method, cur_song, inflight, query_results, stale_applied, last_find>>

\* album_art.rs 105-111: SongChanged or Reconnected reaches the visible pane;
\* song is the current song the context holds by then
OnSongChanged ==
    /\ issued < MaxQueries
    /\ \E song \in Songs \cup {"none"} :
         /\ cur_song' = song
         /\ FetchAlbumArt(song)
    /\ pane_call' = "on_event"
    /\ UNCHANGED <<busVars, loopVars, clock, obsVars, schedVars, idleVars, workVars, termVars,
                   image_method, inflight, query_results, stale_applied, last_find>>

\* Client session worker (spec 4.6): a later request replaces query q when
\* it names q's id as its replace id and has the same target
ReplacedBy(q, later) == later.replace_id = q.id /\ later.target = q.target

\* Client session worker (spec 4.6): the next request is taken from the
\* channel; a query that a request already in the channel replaces may be
\* skipped instead of executed
WorkerTake ==
    /\ inflight = NoQuery
    /\ client_rx # <<>>
    /\ client_rx' = Tail(client_rx)
    /\ \/ inflight' = Head(client_rx)
       \/ /\ \E i \in 2..Len(client_rx) : ReplacedBy(Head(client_rx), client_rx[i])
          /\ inflight' = NoQuery
    /\ UNCHANGED <<busVars, loopVars, clock, obsVars, schedVars, idleVars, workVars, termVars,
                   image_method, cur_song, shown, shown_qn, query_results, issued, superseded,
                   stale_applied, last_find, pane_call>>

\* what MpdClient::albumart and MpdClient::read_picture return: the picture,
\* Ok(None), the server's NoExist failure, or any other error
CommandResults == {"Some", "None", "NoExist", "Err"}

NoFind == [albumart |-> "none", read_picture |-> "none", result |-> "none", sent |-> <<>>]

\* a find_album_art that falls back to read_picture after every failure of
\* albumart
FindAlbumArtFallsBackOnError(a, r) ==
    IF a = "Some"
    THEN [albumart |-> a, read_picture |-> "not_called", result |-> "Some",
          sent |-> <<"albumart">>]
    ELSE [albumart |-> a, read_picture |-> r,
          result |-> IF r = "Some" THEN "Some" ELSE "None",
          sent |-> <<"albumart", "read_picture">>]

\* Client::find_album_art (mpd_client.rs 507-537): a is the result of
\* albumart, r the result read_picture gives if it is invoked; read_picture
\* is "not_called" when it is not, and sent lists the commands of the call
\* in the order of their invocation
FindAlbumArt(a, r) ==
    IF a = "Some"
    THEN [albumart |-> a, read_picture |-> "not_called", result |-> "Some",
          sent |-> <<"albumart">>]
    ELSE IF a \in {"None", "NoExist"}
         THEN [albumart |-> a, read_picture |-> r,
               result |-> IF r = "Some" THEN "Some" ELSE "None",
               sent |-> <<"albumart", "read_picture">>]
         ELSE [albumart |-> a, read_picture |-> "not_called", result |-> "None",
               sent |-> <<"albumart">>]

\* mpd_client.rs 527-535: the status_error! of a failure other than NoExist
FindStatus(f) ==
    IF f.albumart = "Err" \/ f.read_picture = "Err" THEN <<"Error">> ELSE <<>>

\* Client session worker (spec 4.6) running the closure of album_art.rs 49-55
\* on the session: find_album_art returns Ok in every arm, so the closure
\* always yields MpdQueryResult::AlbumArt
WorkerFinish ==
    /\ inflight # NoQuery
    /\ inflight' = NoQuery
    /\ \E a \in CommandResults, r \in CommandResults :
         /\ last_find' = FindAlbumArt(a, r)
         /\ Emit(bus, FindStatus(FindAlbumArt(a, r)))
         /\ query_results' =
               Append(query_results,
                      [id |-> inflight.id, target |-> inflight.target, qn |-> inflight.qn,
                       data |-> IF FindAlbumArt(a, r).result = "Some"
                                THEN inflight.song ELSE "none"])
    /\ UNCHANGED <<applied, loopVars, clock, obsVars, schedVars, idleVars, workVars, termVars,
                   image_method, cur_song, shown, shown_qn, client_rx, issued, superseded,
                   stale_applied, pane_call>>

\* Event loop result stage (spec 4.6): the delivered id is compared with the
\* id most recently issued for the purpose, which is the same ALBUM_ART
\* whatever call issued it
PassesIdCheck(res) == res.id = ALBUM_ART

\* album_art.rs 92-103
OnQueryFinished(id, data, qn) ==
    IF id = ALBUM_ART /\ data # "none"
    THEN shown' = data /\ shown_qn' = qn
    ELSE IF id = ALBUM_ART
         THEN shown' = "default" /\ shown_qn' = 0
         ELSE UNCHANGED <<shown, shown_qn>>

\* a query result reaches the event loop and is handed to its target
DeliverResult ==
    /\ query_results # <<>>
    /\ query_results' = Tail(query_results)
    /\ LET res == Head(query_results) IN
         IF PassesIdCheck(res) /\ res.target = "AlbumArt"
         THEN /\ OnQueryFinished(res.id, res.data, res.qn)
              /\ stale_applied' = (stale_applied \/ res.qn \in superseded)
         ELSE UNCHANGED <<shown, shown_qn, stale_applied>>
    /\ UNCHANGED <<busVars, loopVars, clock, obsVars, schedVars, idleVars, workVars, termVars,
                   image_method, cur_song, client_rx, inflight, issued, superseded, last_find,
                   pane_call>>

\* =========================================================================
\* worker_task, the work pool (lib.rs 159-205)
\* =========================================================================
\* the locators of WorkRequest::DownloadYoutube: one that downloads, one
\* ("http://x") that yt-dlp cannot download
Urls == {"good", "http://x"}

WorkResults == {"Ok", "Err"}

\* the holders of the context's worker_tx (lib.rs 88, 110) submit a request
SubmitWork ==
    /\ Len(work_rx) + jobs["Ok"] + jobs["Err"] + (IF work_cur = "none" THEN 0 ELSE 1) < MaxWork
    /\ \E url \in Urls : work_rx' = Append(work_rx, url)
    /\ UNCHANGED <<busVars, loopVars, clock, obsVars, schedVars, idleVars, artVars, termVars,
                   cache_dir, worker_pc, work_cur, work_result, jobs, done>>

\* lib.rs 189: work_request_receiver.recv() returned a request
WorkerRecv ==
    /\ worker_pc = "recv"
    /\ work_rx # <<>>
    /\ work_cur' = Head(work_rx)
    /\ work_rx' = Tail(work_rx)
    /\ worker_pc' = "handle"
    /\ UNCHANGED <<busVars, loopVars, clock, obsVars, schedVars, idleVars, artVars, termVars,
                   cache_dir, work_result, jobs, done>>

\* handle_work_request (lib.rs 159-181): the result for the request, given
\* whether cache_dir is configured and whether yt-dlp could be set up
HandleWorkRequest(url, cd, ytdlp_ok) ==
    IF ~cd THEN "Err"
    ELSE IF ~ytdlp_ok THEN "Err"
    ELSE IF url = "http://x" THEN "Err"
    ELSE "Ok"

\* lib.rs 190 with lib.rs 166-173: the status message is sent only once
\* cache_dir was found configured
WorkerHandle ==
    /\ worker_pc = "handle"
    /\ \E ytdlp_ok \in BOOLEAN, supported \in BOOLEAN :
         /\ work_result' = HandleWorkRequest(work_cur, cache_dir, ytdlp_ok)
         /\ jobs' = [jobs EXCEPT ![HandleWorkRequest(work_cur, cache_dir, ytdlp_ok)] = @ + 1]
         /\ Emit(bus, IF ~cache_dir THEN <<>>
                      ELSE IF supported THEN <<"Info">> ELSE <<"Warn">>)
    /\ worker_pc' = "send"
    /\ UNCHANGED <<applied, loopVars, clock, obsVars, schedVars, idleVars, artVars, termVars,
                   cache_dir, work_rx, work_cur, done>>

WorkDoneOnlyOk(r) == IF r = "Ok" THEN <<r>> ELSE <<>>

\* lib.rs 190-202: the AppEvent::WorkDone events sent for the result r, one
\* in either arm of the match
WorkDoneFor(r) == <<r>>

\* lib.rs 191-202: the result is sent as AppEvent::WorkDone and the worker
\* goes back to its receive
WorkerSend ==
    /\ worker_pc = "send"
    /\ IF WorkDoneFor(work_result) = <<>>
       THEN UNCHANGED <<bus, sent, send_errors>>
       ELSE BusSend("worker", "WorkDone", Head(WorkDoneFor(work_result)))
    /\ done' = [done EXCEPT ![work_result] = @ + Len(WorkDoneFor(work_result))]
    /\ work_cur' = "none"
    /\ work_result' = "none"
    /\ worker_pc' = AfterSend(ReceiverAlive, "recv")
    /\ UNCHANGED <<applied, loopVars, clock, obsVars, schedVars, idleVars, artVars, termVars,
                   cache_dir, work_rx, jobs>>

\* =========================================================================
\* StrExt::escape, Filter::to_query_str, FilterExt::to_query_str
\* (mpd/mpd_client.rs 620-731).  A string is the sequence of its characters.
\* =========================================================================
EscAlphabet == {"\\", "(", ")", "'", "\"", "a"}

StringsUpTo(n) == UNION {[1..k -> EscAlphabet] : k \in 0..n}

\* str::replace(from, to) for a one-character pattern
RECURSIVE Replace(_, _, _)
Replace(str, from, to) ==
    IF str = <<>> THEN <<>>
    ELSE (IF Head(str) = from THEN to ELSE <<Head(str)>>) \o Replace(Tail(str), from, to)

\* a chain of replace calls that escapes the backslash last
EscapePassesBackslashLast ==
    << <<"(", <<"\\", "(">> >>,
       <<")", <<"\\", ")">> >>,
       <<"'", <<"\\", "\\", "'">> >>,
       <<"\"", <<"\\", "\"">> >>,
       <<"\\", <<"\\", "\\", "\\", "\\">> >> >>

\* mpd_client.rs 625-629: the replace calls in their order, <<from, to>>
EscapePasses ==
    << <<"\\", <<"\\", "\\", "\\", "\\">> >>,
       <<"(", <<"\\", "(">> >>,
       <<")", <<"\\", ")">> >>,
       <<"'", <<"\\", "\\", "'">> >>,
       <<"\"", <<"\\", "\"">> >> >>

\* the string after the replace calls k+1 .. 5 are applied to str
RECURSIVE EscapeFrom(_, _)
EscapeFrom(str, k) ==
    IF k >= Len(EscapePasses) THEN str
    ELSE EscapeFrom(Replace(str, EscapePasses[k + 1][1], EscapePasses[k + 1][2]), k + 1)

\* StrExt::escape (mpd_client.rs 623-631)
Escape(str) == EscapeFrom(str, 0)

\* escape is called on a string
EscapeCall ==
    /\ esc_pass = Len(EscapePasses)
    /\ \E str \in StringsUpTo(MaxStrLen) :
         /\ esc_in' = str
         /\ esc_buf' = str
    /\ esc_pass' = 0
    /\ UNCHANGED <<busVars, loopVars, clock, obsVars, schedVars, idleVars, artVars, workVars,
                   bootVars, raw_mode, uiVars, flt_in, flt_acc, flt_idx>>

\* mpd_client.rs 625-629: the next replace call of the chain
EscapePass ==
    /\ esc_pass < Len(EscapePasses)
    /\ esc_buf' = Replace(esc_buf, EscapePasses[esc_pass + 1][1], EscapePasses[esc_pass + 1][2])
    /\ esc_pass' = esc_pass + 1
    /\ UNCHANGED <<busVars, loopVars, clock, obsVars, schedVars, idleVars, artVars, workVars,
                   bootVars, raw_mode, uiVars, esc_in, flt_in, flt_acc, flt_idx>>

\* Tag (mpd_client.rs 633-644): Custom carries its own string
Tags ==
    {[variant |-> "Any", custom |-> <<>>],
     [variant |-> "Artist", custom |-> <<>>],
     [variant |-> "Album", custom |-> <<>>],
     [variant |-> "Custom", custom |-> <<"c", "t">>]}

\* the characters of a variant's name
StrOf(name) ==
    CASE name = "Any" -> <<"A", "n", "y">>
      [] name = "Artist" -> <<"A", "r", "t", "i", "s", "t">>
      [] name = "Album" -> <<"A", "l", "b", "u", "m">>

\* Tag::as_str (mpd_client.rs 646-659)
TagAsStr(tag) ==
    CASE tag.variant = "Any" -> <<"A", "n", "y">>
      [] tag.variant = "Artist" -> <<"A", "r", "t", "i", "s", "t">>
      [] tag.variant = "Album" -> <<"A", "l", "b", "u", "m">>
      [] tag.variant = "Custom" -> tag.custom

\* FilterKind (mpd_client.rs 661-669)
FilterKinds == {"Exact", "StartsWith", "Contains", "Regex"}

FilterValues == {<<"a">>, <<"(", "'">>, <<"\\", "a">>}

\* Filter (mpd_client.rs 671-676)
Filters == [tag : Tags, value : FilterValues, kind : FilterKinds]

FilterLists == UNION {[1..k -> Filters] : k \in 0..MaxFilters}

\* Filter::to_query_str (mpd_client.rs 707-714)
FilterToQueryStr(f) ==
    CASE f.kind = "Exact" ->
            TagAsStr(f.tag) \o <<" ", "=", "=", " ", "'">> \o Escape(f.value) \o <<"'">>
      [] f.kind = "StartsWith" ->
            TagAsStr(f.tag) \o <<" ", "=", "~", " ", "'", "^">> \o Escape(f.value) \o <<"'">>
      [] f.kind = "Contains" ->
            TagAsStr(f.tag) \o <<" ", "=", "~", " ", "'", ".", "*">> \o Escape(f.value)
                \o <<".", "*", "'">>
      [] f.kind = "Regex" ->
            TagAsStr(f.tag) \o <<" ", "=", "~", " ", "'">> \o Escape(f.value) \o <<"'">>

\* a fold that puts " AND " before every filter
FoldStepAlwaysAnd(acc, idx, f) ==
    acc \o <<" ", "A", "N", "D", " ", "(">> \o FilterToQueryStr(f) \o <<")">>

\* FilterExt::to_query_str (mpd_client.rs 721-729): the closure of the fold,
\* idx counting from 0
FoldStep(acc, idx, f) ==
    IF idx > 0
    THEN acc \o <<" ", "A", "N", "D", " ", "(">> \o FilterToQueryStr(f) \o <<")">>
    ELSE acc \o <<"(">> \o FilterToQueryStr(f) \o <<")">>

\* to_query_str is called on a slice of filters (mpd_client.rs 722: the
\* fold starts from String::new()); one call is followed per behaviour
QueryStrCall ==
    /\ flt_in = <<>>
    /\ flt_idx = 0
    /\ \E fs \in FilterLists : flt_in' = fs
    /\ flt_acc' = <<>>
    /\ flt_idx' = 0
    /\ UNCHANGED <<busVars, loopVars, clock, obsVars, schedVars, idleVars, artVars, workVars,
                   bootVars, raw_mode, uiVars, esc_in, esc_buf, esc_pass>>

\* mpd_client.rs 722-729: one turn of the fold
QueryStrFold ==
    /\ flt_idx < Len(flt_in)
    /\ flt_acc' = FoldStep(flt_acc, flt_idx, flt_in[flt_idx + 1])
    /\ flt_idx' = flt_idx + 1
    /\ UNCHANGED <<busVars, loopVars, clock, obsVars, schedVars, idleVars, artVars, workVars,
                   bootVars, raw_mode, uiVars, esc_in, esc_buf, esc_pass, flt_in>>

\* =========================================================================
\* Ui: the modal stack (ui/mod.rs 219-365, 385-482)
\* =========================================================================
\* ui::modals::Modals (ui/mod.rs 241-245)
ModalKinds == {"ConfirmQueueClear", "SaveQueue", "RenamePlaylist", "AddToPlaylist", "Confirm"}

\* the screens Ui::on_event goes through (ui/mod.rs 401-409, a debug build)
NumScreens == 7

\* KeyHandleResultInternal (ui/mod.rs 555-564) and the Err of a handler
InternalResults ==
    {[tag |-> t, modal |-> "none"] :
        t \in {"RenderRequested", "SkipRender", "KeyNotHandled", "ModalNone"}}
    \cup {[tag |-> "ModalSome", modal |-> k] : k \in ModalKinds}

HandlerResults == InternalResults \cup {[tag |-> "Err", modal |-> "none"]}

\* what the arms of a matched global keybinding return (ui/mod.rs 253-364)
GlobalOutcomes == {"Quit", "RenderRequested", "SkipRender", "Err"}

\* a pop that removes the oldest modal
PopOldest(st) == IF st = <<>> THEN st ELSE Tail(st)

\* Vec::pop (ui/mod.rs 228, 248, 474)
Pop(st) == IF st = <<>> THEN st ELSE SubSeq(st, 1, Len(st) - 1)

\* From<KeyHandleResultInternal> for KeyHandleResult (ui/mod.rs 575-582)
IntoKeyHandleResult(r) == IF r.tag = "SkipRender" THEN "SkipRender" ELSE "RenderRequested"

\* ui/mod.rs 225-233: a modal is open and r is what its handle_key returned
HandleKeyModal(r) ==
    /\ key_target' = "modal"
    /\ key_depth' = Len(modals)
    /\ modals' = IF r.tag = "ModalNone" THEN Pop(modals) ELSE modals
    /\ ui_result' = IF r.tag = "Err" THEN "Err" ELSE IntoKeyHandleResult(r)

\* ui/mod.rs 235-364: no modal is open, r is what the active screen's
\* handle_action returned and g what the global keybinding does with a key the
\* screen did not handle
HandleKeyScreen(r, g) ==
    /\ key_depth' = 0
    /\ key_target' = IF r.tag = "KeyNotHandled" THEN "global" ELSE "screen"
    /\ r.tag = "ModalSome" => Len(modals) < MaxModals
    /\ modals' = CASE r.tag = "ModalSome" -> Append(modals, r.modal)
                   [] r.tag = "ModalNone" -> Pop(modals)
                   [] OTHER -> modals
    /\ ui_result' = CASE r.tag = "Err" -> "Err"
                      [] r.tag = "KeyNotHandled" -> g
                      [] r.tag = "SkipRender" -> "SkipRender"
                      [] OTHER -> "RenderRequested"

\* Ui::handle_key (ui/mod.rs 219-365)
UiHandleKey ==
    /\ ev_screen = 0
    /\ IF modals # <<>>
       THEN \E r \in HandlerResults : HandleKeyModal(r)
       ELSE \E r \in HandlerResults, g \in GlobalOutcomes : HandleKeyScreen(r, g)
    /\ UNCHANGED <<busVars, loopVars, clock, obsVars, schedVars, idleVars, artVars, workVars,
                   bootVars, raw_mode, strVars, albVars, ev_screen>>

\* Ui::on_event up to its loop (ui/mod.rs 385-397): ok says whether the
\* event's own request succeeded
UiOnEvent ==
    /\ ev_screen = 0
    /\ \E ok \in BOOLEAN : ev_screen' = IF ok THEN 1 ELSE 0
    /\ UNCHANGED <<busVars, loopVars, clock, obsVars, schedVars, idleVars, artVars, workVars,
                   bootVars, raw_mode, strVars, albVars, modals, key_target, key_depth,
                   ui_result>>

\* one turn of the loop of Ui::on_event with handle_screen_event_result
\* (ui/mod.rs 401-455, 460-482): r is what the screen's on_event returned
UiOnEventScreen ==
    /\ ev_screen \in 1..NumScreens
    /\ \E r \in HandlerResults :
         /\ r.tag = "ModalSome" => Len(modals) < MaxModals
         /\ modals' = CASE r.tag = "ModalSome" -> Append(modals, r.modal)
                        [] r.tag = "ModalNone" -> Pop(modals)
                        [] OTHER -> modals
         /\ ev_screen' = IF r.tag = "Err" \/ ev_screen = NumScreens THEN 0 ELSE ev_screen + 1
    /\ UNCHANGED <<busVars, loopVars, clock, obsVars, schedVars, idleVars, artVars, workVars,
                   bootVars, raw_mode, strVars, albVars, key_target, key_depth, ui_result>>

\* =========================================================================
\* AlbumsScreen: the browsing stack (ui/screens/albums.rs 44-53, 105-144)
\* =========================================================================
\* the albums and the titles the server lists
Albums == {"album1", "album2"}
Titles == {"title1", "title2"}

\* a match on the path that takes the arm of the album list for every path
PathArmAlwaysRoot(path) == "root"

\* the arm a match on stack.path() takes (ui/screens/albums.rs 111-121, 126-142)
PathArm(path) ==
    CASE Len(path) = 1 -> "album"
      [] Len(path) = 0 -> "root"
      [] OTHER -> "nested"

\* the operation op found the path it found and returned res
Returned(op, res) == alb_last' = [op |-> op, depth |-> Len(alb_path), res |-> res]

\* AlbumsScreen::add (ui/screens/albums.rs 125-144) called by op with item;
\* ok says whether find_add succeeded. add takes &self: the stack is not its
\* to change.
AddItem(op, item, ok) ==
    /\ alb_adds < MaxAdds
    /\ UNCHANGED <<alb_path, alb_selected>>
    /\ CASE PathArm(alb_path) = "nested" ->
              /\ Returned(op, "SkipRender")
              /\ UNCHANGED <<alb_added, alb_adds>>
         [] ~ok ->
              /\ Returned(op, "Err")
              /\ UNCHANGED <<alb_added, alb_adds>>
         [] OTHER ->
              /\ alb_added' = IF PathArm(alb_path) = "album"
                                THEN [title |-> item, album |-> alb_path[Len(alb_path)]]
                                ELSE [title |-> "any", album |-> item]
              /\ alb_adds' = alb_adds + 1
              /\ Returned(op, "RenderRequested")

\* AlbumsScreen::before_show (ui/screens/albums.rs 44-53): listed says whether
\* list_tag succeeded, sel is what the new DirStack has selected and
\* preview_ok whether prepare_preview succeeded
AlbumsBeforeShow ==
    /\ \E listed, preview_ok \in BOOLEAN, sel \in Albums \cup {"none"} :
         CASE alb_path # <<>> ->
                /\ Returned("before_show", "Ok")
                /\ UNCHANGED alb_selected
           [] ~listed ->
                /\ Returned("before_show", "Err")
                /\ UNCHANGED alb_selected
           [] OTHER ->
                /\ alb_selected' = sel
                /\ Returned("before_show", IF sel = "none" \/ preview_ok THEN "Ok" ELSE "Err")
    /\ UNCHANGED <<alb_path, alb_added, alb_adds>>
    /\ UNCHANGED <<busVars, loopVars, clock, obsVars, schedVars, idleVars, artVars, workVars,
                   bootVars, raw_mode, strVars, modals, ev_screen, key_target, key_depth,
                   ui_result>>

\* AlbumsScreen::next (ui/screens/albums.rs 105-123): ok says whether the
\* request to the server succeeded and sel what is selected in the titles
\* pushed
AlbumsNext ==
    /\ \E ok \in BOOLEAN, sel \in Titles \cup {"none"} :
         CASE alb_selected = "none" ->
                /\ Returned("next", "RenderRequested")
                /\ UNCHANGED <<alb_path, alb_selected, alb_added, alb_adds>>
           [] PathArm(alb_path) = "album" -> AddItem("next", alb_selected, ok)
           [] PathArm(alb_path) = "root" /\ ok ->
                /\ alb_path' = Append(alb_path, alb_selected)
                /\ alb_selected' = sel
                /\ Returned("next", "RenderRequested")
                /\ UNCHANGED <<alb_added, alb_adds>>
           [] PathArm(alb_path) = "root" /\ ~ok ->
                /\ Returned("next", "Err")
                /\ UNCHANGED <<alb_path, alb_selected, alb_added, alb_adds>>
           [] OTHER ->
                /\ Returned("next", "RenderRequested")
                /\ UNCHANGED <<alb_path, alb_selected, alb_added, alb_adds>>
    /\ UNCHANGED <<busVars, loopVars, clock, obsVars, schedVars, idleVars, artVars, workVars,
                   bootVars, raw_mode, strVars, modals, ev_screen, key_target, key_depth,
                   ui_result>>

\* AlbumsScreen::add (ui/screens/albums.rs 125-144) on the selected item
AlbumsAdd ==
    /\ alb_selected # "none"
    /\ \E ok \in BOOLEAN : AddItem("add", alb_selected, ok)
    /\ UNCHANGED <<busVars, loopVars, clock, obsVars, schedVars, idleVars, artVars, workVars,
                   bootVars, raw_mode, strVars, modals, ev_screen, key_target, key_depth,
                   ui_result>>

\* =========================================================================
\* main_tui, the start-up and the end of the process (lib.rs 82-157)
\* =========================================================================
\* the fallible steps between the terminal set-up and the spawn of main_task:
\* AppContext::try_new (lib.rs 109-112), the scheduler and the worker and
\* input threads (lib.rs 114-128), the idle connection (lib.rs 130-133)
NextBootStep(p) ==
    CASE p = "context" -> "threads"
      [] p = "threads" -> "idle_client"
      [] p = "idle_client" -> "spawn_main"

\* lib.rs 145-150: what a panic leaves of the raw mode, the hook disabling
\* it when it is installed
AfterPanic(raw) == IF hook_set THEN FALSE ELSE raw

\* lib.rs 106: ui::setup_terminal, try_ret! returning its error
SetupTerminal ==
    /\ boot_pc = "setup"
    /\ \E ok \in BOOLEAN :
         /\ raw_mode' = ok
         /\ boot_pc' = IF ok THEN "context" ELSE "failed"
    /\ UNCHANGED <<busVars, loopVars, clock, obsVars, schedVars, idleVars, artVars, workVars,
                   hook_set, proc, producer_panicked, input_pc>>
    /\ UNCHANGED <<strVars, uiVars>>

\* lib.rs 109-133: each step returns its error from main_tui (try_ret!, ?)
StartupStep ==
    /\ boot_pc \in {"context", "threads", "idle_client"}
    /\ \E ok \in BOOLEAN : boot_pc' = IF ok THEN NextBootStep(boot_pc) ELSE "failed"
    /\ UNCHANGED <<busVars, loopVars, clock, obsVars, schedVars, idleVars, artVars, workVars,
                   hook_set, proc, producer_panicked, input_pc, raw_mode>>
    /\ UNCHANGED <<strVars, uiVars>>

\* lib.rs 135-137: the main task thread is spawned
SpawnMainTask ==
    /\ boot_pc = "spawn_main"
    /\ \E ok \in BOOLEAN :
         /\ boot_pc' = IF ok THEN "spawn_idle" ELSE "failed"
         /\ pc' = IF ok THEN "start" ELSE pc
    /\ UNCHANGED <<busVars, cur, now, last_render, render_wanted, full_rerender_wanted,
                   status, queue, clock, obsVars, schedVars, idleVars, artVars, workVars,
                   hook_set, proc, producer_panicked, input_pc, raw_mode>>
    /\ UNCHANGED <<strVars, uiVars>>

\* lib.rs 139-142: set_read_timeout and the spawn of the idle task
SpawnIdleTask ==
    /\ boot_pc = "spawn_idle"
    /\ \E ok \in BOOLEAN : boot_pc' = IF ok THEN "hook" ELSE "failed"
    /\ UNCHANGED <<busVars, loopVars, clock, obsVars, schedVars, idleVars, artVars, workVars,
                   hook_set, proc, producer_panicked, input_pc, raw_mode>>
    /\ UNCHANGED <<strVars, uiVars>>

\* lib.rs 144-150
SetPanicHook ==
    /\ boot_pc = "hook"
    /\ hook_set' = TRUE
    /\ boot_pc' = "join"
    /\ UNCHANGED <<busVars, loopVars, clock, obsVars, schedVars, idleVars, artVars, workVars,
                   proc, producer_panicked, input_pc, raw_mode>>
    /\ UNCHANGED <<strVars, uiVars>>

\* lib.rs 154: main_task.join().expect(..) returns when main_task ended and
\* panics, on the main thread, when main_task panicked
JoinMainTask ==
    /\ boot_pc = "join"
    /\ pc \in {"end", "panicked"}
    /\ boot_pc' = IF pc = "end" THEN "returned" ELSE "panicked"
    /\ raw_mode' = IF pc = "end" THEN raw_mode ELSE AfterPanic(raw_mode)
    /\ UNCHANGED <<busVars, loopVars, clock, obsVars, schedVars, idleVars, artVars, workVars,
                   hook_set, proc, producer_panicked, input_pc>>
    /\ UNCHANGED <<strVars, uiVars>>

\* the caller of main_tui (spec 6, process exit codes; spec 7 (c)): the
\* process ends once main_tui returned, with Ok or with the error of a failed
\* start-up step, or the main thread panicked
ProcessExit ==
    /\ boot_pc \in {"failed", "returned", "panicked"}
    /\ proc = "running"
    /\ proc' = "ended"
    /\ UNCHANGED <<busVars, loopVars, clock, obsVars, schedVars, idleVars, artVars, workVars,
                   boot_pc, hook_set, producer_panicked, input_pc, raw_mode>>
    /\ UNCHANGED <<strVars, uiVars>>

\* one of main_task's expect(..) fails (lib.rs 214, 221-222, 348, 358, 366):
\* the hook installed by then runs and the thread ends
MainTaskPanic ==
    /\ proc = "running"
    /\ pc \in {"start", "top", "recv", "session", "exited"}
    /\ pc' = "panicked"
    /\ raw_mode' = AfterPanic(raw_mode)
    /\ UNCHANGED <<busVars, cur, now, last_render, render_wanted, full_rerender_wanted,
                   status, queue, clock, obsVars, schedVars, idleVars, artVars, workVars,
                   bootVars>>
    /\ UNCHANGED <<strVars, uiVars>>

\* a producer thread (lib.rs 120-128, 140-142) panics: the hook installed by
\* then runs, the thread ends and the process goes on
ProducerPanic ==
    /\ proc = "running"
    /\ boot_pc \in {"idle_client", "spawn_main", "spawn_idle", "hook", "join"}
    /\ ~producer_panicked
    /\ producer_panicked' = TRUE
    /\ raw_mode' = AfterPanic(raw_mode)
    /\ UNCHANGED <<busVars, loopVars, clock, obsVars, schedVars, idleVars, artVars, workVars,
                   boot_pc, hook_set, proc, input_pc>>
    /\ UNCHANGED <<strVars, uiVars>>

\* input_poll_task (lib.rs 476-507), spawned at lib.rs 126-128
InputPollSend ==
    /\ proc = "running"
    /\ boot_pc \in {"idle_client", "spawn_main", "spawn_idle", "hook", "join"}
    /\ input_pc = "poll"
    /\ TotalSent + TotalSendErrors < MaxEvents
    /\ \E kind \in {"UserKeyInput", "UserMouseInput", "Resized"} :
         BusSend("input", kind, "none")
    /\ input_pc' = AfterSend(ReceiverAlive, "poll")
    /\ UNCHANGED <<applied, loopVars, clock, obsVars, schedVars, idleVars, artVars, workVars,
                   boot_pc, hook_set, proc, producer_panicked, raw_mode>>
    /\ UNCHANGED <<strVars, uiVars>>

\* =========================================================================
\* Initial states
\* =========================================================================
\* main_tui (lib.rs 83-99): the bus holds the first RequestRender(false)
InitBus ==
    /\ bus = <<Ev("RequestRender", "ctx", 1, "false")>>
    /\ sent = [p \in Producers |-> IF p = "ctx" THEN 1 ELSE 0]
    /\ send_errors = [p \in Producers |-> 0]
    /\ applied = [p \in Producers |-> 0]

\* main_task (lib.rs 214-222), its thread being at position p
InitLoopAt(p) ==
    /\ pc = p
    /\ cur = NoEvent
    /\ clock = 0
    /\ now = 0
    /\ last_render = 0 - InitialBackdate
    /\ render_wanted = FALSE
    /\ full_rerender_wanted = FALSE
    /\ status = "Stop"
    /\ queue = 0
    /\ renders = 0
    /\ lastRenderAt = -1
    /\ lastGap = -1
    /\ lastRenderFull = FALSE
    /\ pendingSince = 0
    /\ coalesced = 0
    /\ cycle_events = 0
    /\ ui_event = "none"
    /\ exit_notified = 0
    /\ key_result = "none"
    /\ exit_result = "none"
    /\ last_reply = "none"

InitLoop == InitLoopAt("start")

\* a constructor that queues no Stop before the thread starts
InitSchedNoStop(interval) ==
    /\ event_tx = interval
    /\ ctl = <<>>
    /\ rl_pc = IF interval THEN "try_recv" ELSE "absent"
    /\ ticks = 0
    /\ calls = 0
    /\ call_result = "none"
    /\ stop_pending = FALSE
    /\ last_call = "none"
    /\ forked = FALSE
    /\ sh_ctl = ctl
    /\ sh_pc = rl_pc
    /\ sh_ticks = 0

\* RenderLoop::new (lib.rs 521-553): interval says whether
\* status_update_interval_ms is configured; the Stop of lib.rs 525 is queued
\* before the thread starts
InitSched(interval) ==
    /\ event_tx = interval
    /\ ctl = IF interval THEN <<"Stop">> ELSE <<>>
    /\ rl_pc = IF interval THEN "try_recv" ELSE "absent"
    /\ ticks = 0
    /\ calls = 0
    /\ call_result = "none"
    /\ stop_pending = FALSE
    /\ last_call = "none"
    /\ forked = FALSE
    /\ sh_ctl = ctl
    /\ sh_pc = rl_pc
    /\ sh_ticks = 0

\* idle_task (lib.rs 447)
InitIdle ==
    /\ idle_pc = "wait"
    /\ error_count = 0
    /\ idle_batch = <<>>
    /\ consec_failures = 0
    /\ last_sleep = 0
    /\ idle_oks = 0
    /\ idle_reported = <<>>

\* AlbumArtPane::new (album_art.rs 22-26)
InitArt(method) ==
    /\ image_method = method
    /\ cur_song = "none"
    /\ shown = "blank"
    /\ shown_qn = 0
    /\ client_rx = <<>>
    /\ inflight = NoQuery
    /\ query_results = <<>>
    /\ issued = 0
    /\ superseded = {}
    /\ stale_applied = FALSE
    /\ last_find = NoFind
    /\ pane_call = "none"

\* AlbumsScreen::default (ui/screens/albums.rs 23-27): an empty stack
InitAlbums ==
    /\ alb_path = <<>>
    /\ alb_selected = "none"
    /\ alb_added = [title |-> "none", album |-> "none"]
    /\ alb_adds = 0
    /\ alb_last = [op |-> "none", depth |-> 0, res |-> "none"]

\* Ui::new (ui/mod.rs 74-84): no modal is open, the screens are new
InitUi ==
    /\ modals = <<>>
    /\ ev_screen = 0
    /\ key_target = "none"
    /\ key_depth = 0
    /\ ui_result = "none"
    /\ InitAlbums

\* no escape and no to_query_str call under way
InitStr ==
    /\ esc_in = <<>>
    /\ esc_buf = <<>>
    /\ esc_pass = Len(EscapePasses)
    /\ flt_in = <<>>
    /\ flt_acc = <<>>
    /\ flt_idx = 0

\* worker_task (lib.rs 88, 184-188): cd says whether cache_dir is configured
InitWork(cd) ==
    /\ cache_dir = cd
    /\ work_rx = <<>>
    /\ worker_pc = "recv"
    /\ work_cur = "none"
    /\ work_result = "none"
    /\ jobs = [r \in WorkResults |-> 0]
    /\ done = [r \in WorkResults |-> 0]

\* main_tui (lib.rs 82-157) once every thread runs: the terminal is set up
\* (lib.rs 106), the panic hook installed (lib.rs 144-150) and the main
\* thread waits in join (lib.rs 154)
InitBooted ==
    /\ boot_pc = "join"
    /\ hook_set = TRUE
    /\ proc = "running"
    /\ producer_panicked = FALSE
    /\ input_pc = "poll"
    /\ raw_mode = TRUE

\* ---- main_task against its producers
Init ==
    /\ InitBus /\ InitLoop /\ InitSched(TRUE) /\ InitIdle /\ InitArt("Kitty")
    /\ InitWork(TRUE) /\ InitStr /\ InitUi /\ InitBooted

Next == MainTask \/ ProducerSend \/ Tick

Spec == Init /\ [][Next]_vars

\* ---- main_task against its producers, its thread being scheduled again and
\*      again and time passing (up to MaxClock)
NextFrame == MainTask \/ ProducerSend \/ Tick

SpecFrame == Init /\ [][NextFrame]_vars /\ WF_vars(MainTask) /\ WF_vars(Tick)

\* ---- the update scheduler against every sequence of start()/stop() calls,
\*      with and without a configured interval
InitSchedSpec ==
    /\ InitBus /\ InitLoop /\ InitIdle /\ InitArt("Kitty") /\ InitWork(TRUE) /\ InitBooted
    /\ InitStr /\ InitUi
    /\ \E interval \in BOOLEAN : InitSched(interval)

NextSched == SchedTryRecv \/ SchedStoppedRecv \/ SchedTick \/ CallStart \/ CallStop

SpecSched == InitSchedSpec /\ [][NextSched]_vars

\* ---- the same, the scheduler thread being scheduled again and again
SpecSchedFair ==
    /\ InitSchedSpec
    /\ [][NextSched]_vars
    /\ WF_vars(SchedTryRecv) /\ WF_vars(SchedStoppedRecv) /\ WF_vars(SchedTick)

\* ---- the change listener against every sequence of wait results
NextIdle == IdleWaitOk \/ IdleWaitErr \/ IdleSleepDone \/ IdleSendEvent

SpecIdle == Init /\ [][NextIdle]_vars

\* ---- the album art pane, the client worker and the delivery of results
InitArtSpec ==
    /\ InitBus /\ InitLoop /\ InitIdle /\ InitSched(TRUE) /\ InitWork(TRUE) /\ InitBooted
    /\ InitStr /\ InitUi
    /\ \E method \in ImageMethods : InitArt(method)

NextArt == BeforeShow \/ OnSongChanged \/ WorkerTake \/ WorkerFinish \/ DeliverResult

SpecArt == InitArtSpec /\ [][NextArt]_vars

\* ---- main_task applying Player idle events and the scheduler it controls.
\*      The change listener has already reported up to MaxPlayerEvents
\*      player changes (lib.rs 464-469) when main_task reaches its first
\*      receive; the input listener and the work pool stay quiet, and the
\*      wall clock main_task reads is left where it is, since it only paces
\*      the renders.  The
\*      scheduler thread is an OS thread of its own (lib.rs 532): its sleep
\*      ends and its receive returns once a signal is queued, hence the weak
\*      fairness of its three steps.
InitPlayerSpec ==
    /\ InitLoop /\ InitArt("Kitty") /\ InitWork(TRUE) /\ InitStr /\ InitUi /\ InitBooted
    /\ \E interval \in BOOLEAN : InitSched(interval)
    /\ \E k \in 1..MaxPlayerEvents :
         /\ bus = <<Ev("RequestRender", "ctx", 1, "false")>>
                    \o [i \in 1..k |-> Ev("IdleEvent", "idle", i, "Player")]
         /\ sent = [p \in Producers |-> IF p = "ctx" THEN 1 ELSE IF p = "idle" THEN k ELSE 0]
         /\ send_errors = [p \in Producers |-> 0]
         /\ applied = [p \in Producers |-> 0]
         /\ idle_oks = k
         /\ idle_reported = [i \in 1..k |-> "Player"]
    /\ idle_pc = "wait"
    /\ error_count = 0
    /\ idle_batch = <<>>
    /\ consec_failures = 0
    /\ last_sleep = 0

PlayerLoop ==
    \/ LoopTop \/ BeginSessionCall
    \/ ReplyIdleEvent \/ ReplyStatusUpdate
    \/ HandleRequestRender \/ HandleStatus

NextPlayer ==
    \/ PlayerLoop
    \/ SchedTryRecv \/ SchedStoppedRecv \/ SchedTick

SpecPlayer ==
    /\ InitPlayerSpec
    /\ [][NextPlayer]_vars
    /\ WF_vars(SchedTryRecv) /\ WF_vars(SchedStoppedRecv) /\ WF_vars(SchedTick)

\* ---- the work pool and main_task applying its results, with and without
\*      a configured cache_dir; the other producers stay quiet
InitWorkSpec ==
    /\ InitBus /\ InitLoop /\ InitSched(TRUE) /\ InitIdle /\ InitArt("Kitty") /\ InitBooted
    /\ \E cd \in BOOLEAN : InitWork(cd)
    /\ InitStr /\ InitUi

WorkLoop ==
    \/ LoopTop \/ BeginSessionCall \/ ReplyWorkDone \/ HandleWorkFailed
    \/ HandleStatus \/ HandleRequestRender

NextWork == SubmitWork \/ WorkerRecv \/ WorkerHandle \/ WorkerSend \/ WorkLoop

SpecWork == InitWorkSpec /\ [][NextWork]_vars

\* ---- main_tui from the terminal set-up to the end of the process, with
\*      main_task applying the input listener's events
InitBootSpec ==
    /\ InitBus /\ InitLoopAt("unspawned") /\ InitSched(TRUE) /\ InitIdle /\ InitArt("Kitty")
    /\ InitWork(TRUE) /\ InitStr /\ InitUi
    /\ boot_pc = "setup"
    /\ hook_set = FALSE
    /\ proc = "running"
    /\ producer_panicked = FALSE
    /\ input_pc = "poll"
    /\ raw_mode = FALSE

BootLoop ==
    \/ LoopTop \/ BeginSessionCall \/ HandleInput \/ ReplyInput
    \/ HandleStatus \/ HandleRequestRender \/ HandleResized \/ RestoreTerminal

NextBoot ==
    \/ SetupTerminal \/ StartupStep \/ SpawnMainTask \/ SpawnIdleTask \/ SetPanicHook
    \/ JoinMainTask \/ ProcessExit
    \/ MainTaskPanic \/ ProducerPanic \/ InputPollSend
    \/ BootLoop

SpecBoot == InitBootSpec /\ [][NextBoot]_vars

\* =========================================================================
\* Properties
\* =========================================================================

\* C1: any two successive renders are at least one frame budget of
\* wall-clock time apart.
C1_FrameBudget == lastGap = -1 \/ lastGap >= min_frame_duration

\* C2: the render requests consumed while a render is already pending and
\* the frame budget has not elapsed share one render: no render is performed
\* while the render stays pending, and when it stops being pending exactly
\* one render has been performed for all of them.
C2_OneRenderForAll ==
    /\ render_wanted => renders = pendingSince
    /\ (~render_wanted /\ coalesced >= 1) => renders = pendingSince + 1

C2_Witness == ~render_wanted /\ coalesced >= 2 /\ renders = pendingSince + 1

\* the events of producer p still on the bus
OnBusFrom(p) == SelectSeq(bus, LAMBDA e : e.src = p)

\* the bus holds, for every producer, exactly the events sent and not yet
\* applied, in the order they were sent
BusInOrder ==
    \A p \in Producers :
        /\ Len(OnBusFrom(p)) = sent[p] - applied[p]
        /\ \A i \in 1..Len(OnBusFrom(p)) : OnBusFrom(p)[i].n = applied[p] + i

\* C3 as stated: every loop cycle consumes exactly one event, each producer's
\* events are applied in the order sent, none is dropped or applied twice.
C3_ExactlyOnePerCycle ==
    /\ pc = "top" => cycle_events = 1
    /\ BusInOrder

\* C3 as amended: a loop cycle consumes at most one event (none when the
\* receive times out), each producer's events are applied in the order sent,
\* none is dropped or applied twice.
C3_AtMostOnePerCycle ==
    /\ cycle_events \in {0, 1}
    /\ BusInOrder

C3_Witness ==
    /\ pc = "top"
    /\ cycle_events = 0
    /\ \E p \in Producers : applied[p] >= 2
    /\ \E p \in Producers : Len(OnBusFrom(p)) >= 1

\* C6: main_task never waits for the answer to a synchronous session request
\* while it applies an event.
C6_NeverWaitsForSession == pc # "session"

\* C7 as stated: once stop() is sent while the scheduler is Running, no
\* RequestStatusUpdate is emitted until start() is sent again.
C7_NoTickAfterStop == [][stop_pending => ticks' = ticks]_vars

\* C7 as amended: a Stop dequeued while Running moves the scheduler to
\* Stopped; while Stopped it emits no RequestStatusUpdate and it leaves
\* Stopped only by receiving a Start.
C7_StoppedIsSilent ==
    [][/\ (rl_pc = "try_recv" /\ ctl # <<>> /\ Head(ctl) = "Stop" /\ rl_pc' # rl_pc)
            => rl_pc' = "stopped"
       /\ rl_pc = "stopped" => ticks' = ticks
       /\ (rl_pc = "stopped" /\ rl_pc' # "stopped") => (ctl # <<>> /\ Head(ctl) = "Start")
      ]_vars

C7_Witness == rl_pc = "stopped" /\ stop_pending /\ ticks >= 1

\* C8: a start() made while the scheduler is Running changes nothing: the
\* scheduler's state and the RequestStatusUpdate events emitted stay those of
\* the run in which that start() was not made.
C8_RedundantStartIsNoOp == forked => (rl_pc = sh_pc /\ ticks = sh_ticks)

\* C9: without a configured interval no RequestStatusUpdate is ever emitted
\* and start() and stop() succeed and change nothing.
C9_InertWithoutInterval ==
    ~event_tx =>
        /\ ticks = 0
        /\ sent["sched"] = 0
        /\ ctl = <<>>
        /\ rl_pc = "absent"
        /\ call_result \in {"none", "Ok"}

C9_Witness == ~event_tx /\ calls >= 2 /\ call_result = "Ok"

\* C10: the listener terminates on the fifth consecutive failed wait and not
\* after fewer consecutive failures.
C10_FiveFailuresTerminate ==
    /\ consec_failures >= 5 => idle_pc = "terminated"
    /\ idle_pc = "terminated" => consec_failures >= 5

\* C4: the result of a query replaced before its result arrived is never
\* applied by the target: on_query_finished does not run with its data.
C4_StaleResultDiscarded == ~stale_applied

\* C5: once the query for one song is replaced by the query for another
\* before its result returned, the pane never displays the art of the
\* replaced query.
C5_NeverSupersededArt == shown_qn \notin superseded

\* C11: a successful idle wait resets the failure counter to 0, so that
\* whenever no failure has happened since the last success the counter is 0
\* and failures separated by successes do not accumulate.
C11_SuccessResetsCounter == consec_failures = 0 => error_count = 0

\* C12: the k-th consecutive failure sleeps k seconds and no backoff sleep is
\* longer than 5 seconds.
C12_BackoffOneToFive ==
    idle_pc = "sleep" => (last_sleep = consec_failures /\ last_sleep <= 5)

\* main_task finishes applying a Player idle event whose status refresh
\* succeeded (lib.rs 384-393)
PlayerRefreshed ==
    /\ pc = "session"
    /\ cur.kind = "IdleEvent"
    /\ cur.arg = "Player"
    /\ pc' # "session"
    /\ last_reply' = "Ok"

\* a signal of the given kind waits in the scheduler's control channel
Queued(sig) == \E i \in 1..Len(ctl) : ctl[i] = sig

\* C13: applying a Player idle event whose refreshed state is Play sends a
\* Start; with an interval configured the scheduler then leaves Stopped for
\* Running and emits a further RequestStatusUpdate.
C13_PlayStartsScheduler ==
    /\ [][(PlayerRefreshed /\ status' = "Play")
            => ctl' = (IF event_tx THEN Append(ctl, "Start") ELSE ctl)]_vars
    /\ (rl_pc = "stopped" /\ Queued("Start")) ~> Running(rl_pc)
    /\ \A t \in 0..(MaxTicks - 1) : (Queued("Start") /\ ticks = t) ~> (ticks > t)

C13_Witness ==
    /\ event_tx
    /\ status = "Play"
    /\ last_reply = "Ok"
    /\ applied["idle"] >= 1
    /\ rl_pc = "try_recv"
    /\ ticks >= 1

\* C14: applying a Player idle event whose refreshed state is not Play sends
\* a Stop; the scheduler then becomes Stopped (after at most one
\* RequestStatusUpdate per signal queued), and while Stopped it emits no
\* RequestStatusUpdate.
C14_NotPlayingStopsScheduler ==
    /\ [][(PlayerRefreshed /\ status' # "Play")
            => ctl' = (IF event_tx THEN Append(ctl, "Stop") ELSE ctl)]_vars
    /\ [][rl_pc = "stopped" => ticks' = ticks]_vars
    /\ (event_tx /\ Queued("Stop") /\ ticks + Len(ctl) <= MaxTicks) ~> (rl_pc = "stopped")

C14_Witness ==
    /\ event_tx
    /\ status \in {"Pause", "Stop"}
    /\ last_reply = "Ok"
    /\ ticks >= 1
    /\ ticks < MaxTicks
    /\ rl_pc = "stopped"
    /\ ctl = <<>>

\* C15: every WorkRequest received yields exactly one AppEvent::WorkDone,
\* Ok for a job that succeeded and Err for a job that failed; the worker goes
\* back to its receive after a failed job and main_task goes on with its loop
\* after applying a WorkDone(Err).
C15_OneWorkDonePerRequest ==
    /\ [](worker_pc = "recv" => done = jobs)
    /\ [](sent["worker"] = done["Ok"] + done["Err"])
    /\ [][(worker_pc = "send" /\ worker_pc' # "send")
            => (worker_pc' = "recv" /\ done' = [done EXCEPT ![work_result] = @ + 1])]_vars
    /\ [][(pc = "recv" /\ pc' # "recv" /\ bus # <<>> /\ Head(bus).kind = "WorkDone"
           /\ Head(bus).arg = "Err")
            => (pc' = "top" /\ sent'["log"] = sent["log"] + 1)]_vars

C15_Witness ==
    /\ cache_dir
    /\ done["Err"] = 1
    /\ done["Ok"] = 1
    /\ jobs = done
    /\ worker_pc = "recv"
    /\ applied["worker"] = 2
    /\ pc = "top"

\* C16: whenever the process has ended, the terminal is out of raw /
\* alternate-screen mode.
C16_TerminalRestoredAtExit == proc = "ended" => ~raw_mode

\* C17: a Quit result delivers UiEvent::Exit exactly once while main_task is
\* still inside its loop and the terminal is still in raw mode; the loop is
\* left in the same step whether the notification returned Ok or Err; the
\* only step main_task takes after leaving the loop is restore_terminal, and
\* the terminal is restored by nothing else.
C17_QuitOrder ==
    /\ [](exit_notified <= 1)
    /\ [](pc \in {"exited", "end"} <=> exit_notified = 1)
    /\ [](exit_result # "none" <=> exit_notified = 1)
    /\ [](raw_mode <=> pc # "end")
    /\ [][exit_notified' # exit_notified
            => (pc \in {"recv", "session"} /\ pc' = "exited" /\ raw_mode /\ raw_mode')]_vars
    /\ [][pc = "exited" => pc' \in {"exited", "end"}]_vars
    /\ [][pc = "end" => pc' = "end"]_vars

C17_Witness ==
    /\ pc = "end"
    /\ exit_notified = 1
    /\ exit_result = "Err"
    /\ ui_event = "Exit"
    /\ ~raw_mode

\* the subsystems of the AppEvent::IdleEvent on the bus, oldest first
IdleEventsOn(b) ==
    LET evs == SelectSeq(b, LAMBDA e : e.kind = "IdleEvent" /\ e.src = "idle")
    IN  [i \in 1..Len(evs) |-> evs[i].arg]

\* C18: the idle events idle_task has put on the bus, followed by the part of
\* the current batch it has not sent yet, are exactly the subsystems the
\* successful waits returned, in their order; the whole batch is sent before
\* the next wait; a failed wait sends nothing.
C18_OneEventPerSubsystem ==
    /\ [](IdleEventsOn(bus) \o idle_batch = idle_reported)
    /\ [](sent["idle"] = Len(idle_reported) - Len(idle_batch))
    /\ [](idle_pc # "send" => idle_batch = <<>>)
    /\ [][(idle_pc = "wait" /\ idle_pc' \in {"sleep", "terminated"})
            => (bus' = bus /\ sent' = sent /\ idle_reported' = idle_reported)]_vars

C18_Witness ==
    /\ idle_pc = "wait"
    /\ idle_reported = <<"Mixer", "Player", "Playlist", "Output">>
    /\ IdleEventsOn(bus) = idle_reported
    /\ error_count = 1

\* ---- main_task applying idle events of every subsystem: up to
\*      MaxIdleEvents of them are on the bus when main_task reaches its first
\*      receive (idle_reported lists them); the scheduler thread and the other
\*      producers stay quiet
InitIdleLoopSpec ==
    /\ InitLoop /\ InitArt("Kitty") /\ InitWork(TRUE) /\ InitStr /\ InitUi /\ InitBooted
    /\ \E interval \in BOOLEAN : InitSched(interval)
    /\ \E k \in 1..MaxIdleEvents :
         \E subs \in [1..k -> IdleEventKinds] :
            /\ bus = <<Ev("RequestRender", "ctx", 1, "false")>>
                       \o [i \in 1..k |-> Ev("IdleEvent", "idle", i, subs[i])]
            /\ sent = [p \in Producers |->
                         IF p = "ctx" THEN 1 ELSE IF p = "idle" THEN k ELSE 0]
            /\ send_errors = [p \in Producers |-> 0]
            /\ applied = [p \in Producers |-> 0]
            /\ idle_oks = k
            /\ idle_reported = subs
    /\ idle_pc = "wait"
    /\ error_count = 0
    /\ idle_batch = <<>>
    /\ consec_failures = 0
    /\ last_sleep = 0

NextIdleLoop ==
    \/ LoopTop \/ BeginSessionCall
    \/ HandleIdleEvent \/ ReplyIdleEvent
    \/ HandleRequestRender \/ HandleStatus

SpecIdleLoop == InitIdleLoopSpec /\ [][NextIdleLoop]_vars

\* main_task takes an idle event of an unhandled subsystem from the bus
TakesUnhandled ==
    /\ pc = "recv"
    /\ pc' # "recv"
    /\ bus # <<>>
    /\ RecvFrom(bus).kind = "IdleEvent"
    /\ RecvFrom(bus).arg \in UnhandledSubsystems

\* C19: applying an idle event of an unhandled subsystem needs no session
\* request and ends the loop iteration in one step: the status and queue
\* snapshots and the scheduler are as before, no status message is raised,
\* and no UiEvent is passed to the UI.
C19_UnhandledAccepted ==
    [][TakesUnhandled =>
        /\ pc' = "top"
        /\ bus' = RestAfterRecv(bus)
        /\ applied' = [applied EXCEPT !["idle"] = @ + 1]
        /\ sent' = sent
        /\ status' = status
        /\ queue' = queue
        /\ schedVars' = schedVars
        /\ ui_event' = ui_event
        /\ last_reply' = last_reply]_vars

C19_Witness ==
    /\ idle_reported = <<"Output", "Mount">>
    /\ applied["idle"] = 2
    /\ bus = <<>>
    /\ pc = "top"
    /\ ui_event = "none"
    /\ sent["log"] = 0
    /\ ctl = <<>>

\* the session answers main_task's request with an error
SessionCallFails ==
    /\ pc = "session"
    /\ pc' # "session"
    /\ last_reply' = "Err"

\* C20: when the session request made for an event fails, at least one new
\* AppEvent::Status of level Error is put on the bus and main_task goes back
\* to the top of its loop.
C20_FailureIsStatusMessage ==
    [][SessionCallFails =>
        /\ pc' = "top"
        /\ sent'["log"] > sent["log"]
        /\ \E i \in 1..Len(bus') :
              /\ bus'[i].kind = "Status"
              /\ bus'[i].arg = "Error"
              /\ bus'[i].n > sent["log"]]_vars

\* ---- the producers after main_task is gone.  Ui::new or the first
\*      before_show failed and main_task panicked (lib.rs 214, 221) before any
\*      producer sent an event: the panic hook has restored the terminal, the
\*      Receiver is dropped, and the main thread has not yet returned from
\*      join (lib.rs 154).  The scheduler holds the Stop of lib.rs 525 and the
\*      Start of lib.rs 116.
InitDropSpec ==
    /\ InitBus /\ InitLoopAt("panicked") /\ InitIdle /\ InitArt("Kitty") /\ InitWork(TRUE)
    /\ InitStr /\ InitUi
    /\ boot_pc = "join"
    /\ hook_set = TRUE
    /\ proc = "running"
    /\ producer_panicked = FALSE
    /\ input_pc = "poll"
    /\ raw_mode = FALSE
    /\ event_tx = TRUE
    /\ ctl = <<"Stop", "Start">>
    /\ rl_pc = "try_recv"
    /\ ticks = 0
    /\ calls = 1
    /\ call_result = "Ok"
    /\ stop_pending = FALSE
    /\ last_call = "start"
    /\ forked = FALSE
    /\ sh_ctl = ctl
    /\ sh_pc = rl_pc
    /\ sh_ticks = 0

NextDrop ==
    \/ IdleWaitOk \/ IdleSendEvent
    \/ SubmitWork \/ WorkerRecv \/ WorkerHandle \/ WorkerSend
    \/ SchedTryRecv \/ SchedStoppedRecv \/ SchedTick
    \/ InputPollSend

SpecDrop == InitDropSpec /\ [][NextDrop]_vars

\* C21: a send that returns Err leaves its producer in its loop: the change
\* listener at its next send or wait, the input listener at its poll, the
\* worker at its receive, the scheduler thread at the top of its update loop;
\* no producer is ever terminated by failed sends.
C21_SendErrorKeepsProducer ==
    /\ [][send_errors'["idle"] > send_errors["idle"] => idle_pc' \in {"send", "wait"}]_vars
    /\ [][send_errors'["input"] > send_errors["input"] => input_pc' = "poll"]_vars
    /\ [][send_errors'["worker"] > send_errors["worker"] => worker_pc' = "recv"]_vars
    /\ [][send_errors'["sched"] > send_errors["sched"] => rl_pc' = "try_recv"]_vars
    /\ [](/\ idle_pc # "terminated"
          /\ input_pc # "terminated"
          /\ worker_pc # "terminated"
          /\ rl_pc # "terminated")

C21_Witness ==
    /\ ~ReceiverAlive
    /\ send_errors["idle"] >= 2
    /\ send_errors["input"] >= 2
    /\ send_errors["worker"] >= 2
    /\ send_errors["sched"] >= 2
    /\ idle_pc = "wait"
    /\ input_pc = "poll"
    /\ worker_pc = "recv"
    /\ rl_pc = "sleep"
    /\ bus = <<Ev("RequestRender", "ctx", 1, "false")>>

\* the command found no art: Ok(None) or the server's NoExist failure
NotFound(x) == x \in {"None", "NoExist"}

\* C22: read_picture is invoked exactly when albumart found no art, and
\* find_album_art returns None only if albumart and read_picture both found
\* no art and neither failed.
C22_NoneOnlyWithoutErrors ==
    last_find # NoFind =>
        /\ (last_find.read_picture # "not_called") <=> NotFound(last_find.albumart)
        /\ last_find.result = "None" =>
              (NotFound(last_find.albumart) /\ NotFound(last_find.read_picture))

\* the step sends exactly one ClientRequest::Query, with id "album_art",
\* replace_id Some("album_art") and target AlbumArt
SendsOneAlbumArtQuery ==
    /\ Len(client_rx') = Len(client_rx) + 1
    /\ SubSeq(client_rx', 1, Len(client_rx)) = client_rx
    /\ RecvNewest(client_rx').id = "album_art"
    /\ RecvNewest(client_rx').replace_id = "album_art"
    /\ RecvNewest(client_rx').target = "AlbumArt"

SendsNoRequest == client_rx' = client_rx

\* what the claims C23 and C24 expect of a call made with the song current
ExpectedOfMethod ==
    IF image_method \in {"Kitty", "UeberzugWayland", "UeberzugX11", "Iterm2", "Sixel"}
    THEN SendsOneAlbumArtQuery
    ELSE SendsNoRequest

\* C23 as stated: before_show with a current song sends exactly one album art
\* query when the image method displays images and no request otherwise.
C23_BeforeShowQueries ==
    [][(BeforeShow /\ cur_song # "none") => ExpectedOfMethod]_vars

\* C23 as amended: the same for a current song whose URI does not start with
\* a disabled protocol.
C23_BeforeShowQueriesEnabledProtocol ==
    [][(BeforeShow /\ cur_song # "none" /\ ~ProtocolDisabled(cur_song)) => ExpectedOfMethod]_vars

C23_Witness ==
    /\ pane_call = "before_show"
    /\ image_method = "Sixel"
    /\ cur_song = "A"
    /\ client_rx # <<>>
    /\ RecvNewest(client_rx).song = "A"
    /\ RecvNewest(client_rx).qn = issued

\* C24 as stated: on_event(SongChanged) on the visible pane with a current
\* song sends exactly one album art query when the image method displays
\* images and no request otherwise.
C24_SongChangedQueries ==
    [][(OnSongChanged /\ cur_song' # "none") => ExpectedOfMethod]_vars

\* C24 as amended: the same for a current song whose URI does not start with
\* a disabled protocol.
C24_SongChangedQueriesEnabledProtocol ==
    [][(OnSongChanged /\ cur_song' # "none" /\ ~ProtocolDisabled(cur_song'))
         => ExpectedOfMethod]_vars

C24_Witness ==
    /\ pane_call = "on_event"
    /\ image_method = "Unsupported"
    /\ cur_song = "B"
    /\ client_rx = <<>>
    /\ issued = 0
    /\ shown = "default"

\* ---- StrExt::escape called on every string of up to MaxStrLen characters
InitEscapeSpec ==
    /\ InitBus /\ InitLoop /\ InitIdle /\ InitSched(TRUE) /\ InitArt("Kitty")
    /\ InitWork(TRUE) /\ InitBooted /\ InitStr /\ InitUi

NextEscape == EscapeCall \/ EscapePass

SpecEscape == InitEscapeSpec /\ [][NextEscape]_vars

\* ---- to_query_str called on every list of up to MaxFilters filters
InitFilterSpec ==
    /\ InitBus /\ InitLoop /\ InitIdle /\ InitSched(TRUE) /\ InitArt("Kitty")
    /\ InitWork(TRUE) /\ InitBooted /\ InitStr /\ InitUi

NextFilter == QueryStrCall \/ QueryStrFold

SpecFilter == InitFilterSpec /\ [][NextFilter]_vars

\* ---- the Ui given every sequence of keys and events, its modals and
\*      screens answering in every way
InitModalSpec ==
    /\ InitBus /\ InitLoop /\ InitIdle /\ InitSched(TRUE) /\ InitArt("Kitty")
    /\ InitWork(TRUE) /\ InitBooted /\ InitStr /\ InitUi

NextModal == UiHandleKey \/ UiOnEvent \/ UiOnEventScreen

SpecModal == InitModalSpec /\ [][NextModal]_vars

\* ---- the albums screen given every sequence of before_show, next and add,
\*      the server answering in every way
NextAlbums == AlbumsBeforeShow \/ AlbumsNext \/ AlbumsAdd

SpecAlbums == InitModalSpec /\ [][NextAlbums]_vars

\* the escaped form of one character, as the claims C25 and C26 give it
EscapedChar(c) ==
    CASE c = "\\" -> <<"\\", "\\", "\\", "\\">>
      [] c = "(" -> <<"\\", "(">>
      [] c = ")" -> <<"\\", ")">>
      [] c = "'" -> <<"\\", "\\", "'">>
      [] c = "\"" -> <<"\\", "\"">>
      [] OTHER -> <<c>>

\* the escaped forms of the characters of str, one after the other
RECURSIVE CharWise(_)
CharWise(str) ==
    IF str = <<>> THEN <<>>
    ELSE CharWise(SubSeq(str, 1, Len(str) - 1)) \o EscapedChar(str[Len(str)])

\* C26: once the chain of replace calls is through, the result is the
\* concatenation of the escaped forms of the input's characters, each
\* character mapped on its own; it is what escape returns.
C26_EscapeIsCharWise ==
    esc_pass = Len(EscapePasses) =>
        /\ esc_buf = CharWise(esc_in)
        /\ esc_buf = Escape(esc_in)

C26_Witness ==
    /\ esc_pass = Len(EscapePasses)
    /\ esc_in = <<"\\", "(", "'">>
    /\ esc_buf = <<"\\", "\\", "\\", "\\", "\\", "(", "\\", "\\", "'">>

\* the parts of a filter's expression in the claim C25: the operator, and
\* what stands before and after the escaped value inside the quotes
OperatorOf(kind) == IF kind = "Exact" THEN <<"=", "=">> ELSE <<"=", "~">>

BeforeValue(kind) ==
    CASE kind = "StartsWith" -> <<"^">>
      [] kind = "Contains" -> <<".", "*">>
      [] OTHER -> <<>>

AfterValue(kind) == IF kind = "Contains" THEN <<".", "*">> ELSE <<>>

TagName(tag) == IF tag.variant = "Custom" THEN tag.custom ELSE StrOf(tag.variant)

ExpressionOf(f) ==
    TagName(f.tag) \o <<" ">> \o OperatorOf(f.kind) \o <<" ", "'">>
        \o BeforeValue(f.kind) \o CharWise(f.value) \o AfterValue(f.kind) \o <<"'">>

\* the expressions of the first n filters of fs, each in parentheses, joined
\* by " AND "
RECURSIVE JoinedExpressions(_, _)
JoinedExpressions(fs, n) ==
    IF n = 0 THEN <<>>
    ELSE IF n = 1 THEN <<"(">> \o ExpressionOf(fs[1]) \o <<")">>
    ELSE JoinedExpressions(fs, n - 1)
            \o <<" ", "A", "N", "D", " ">> \o <<"(">> \o ExpressionOf(fs[n]) \o <<")">>

\* C25: when the fold is through, the accumulator is the filters'
\* expressions, each wrapped in parentheses, joined by " AND "; an
\* expression is the tag's name, the operator of the filter's kind and the
\* escaped value in quotes, with ^ or .* around it as the kind asks.
C25_QueryStrIsJoinedExpressions ==
    flt_idx = Len(flt_in) => flt_acc = JoinedExpressions(flt_in, Len(flt_in))

C25_Witness ==
    /\ Len(flt_in) = 2
    /\ flt_idx = 2
    /\ flt_in[1].kind = "Contains"
    /\ flt_in[1].tag.variant = "Custom"
    /\ flt_in[2].kind = "Exact"
    /\ flt_in[2].value = <<"(", "'">>
    /\ flt_acc = JoinedExpressions(flt_in, 2)

\* C27: the full-render flag, once set, is cleared only by a render, and
\* that render is a full one (it clears the stale buffers).
C27_FullRenderKeptUntilRender ==
    [][(full_rerender_wanted /\ ~full_rerender_wanted')
         => (renders' = renders + 1 /\ lastRenderFull')]_vars

\* C28: right after a render both render flags are false and last_render is
\* the wall-clock time at which the render was performed.
C28_RenderRecordsItsTime ==
    [][renders' = renders + 1
         => (~render_wanted' /\ ~full_rerender_wanted' /\ last_render' = clock')]_vars

\* main_task has left its loop (Quit) or has panicked
LoopEnded == pc \in {"exited", "end", "panicked"}

\* C29: a pending render is performed: the wait for an event ends when the
\* remaining frame budget is over, after such a timeout no budget remains, so
\* the render follows, and nothing but a render clears the pending flag.  The
\* pending flag is looked at while the clock can still run a frame budget.
C29_PendingRenderIsPerformed ==
    /\ (render_wanted /\ clock + min_frame_duration <= MaxClock)
          ~> (~render_wanted \/ LoopEnded)
    /\ [][(render_wanted /\ ~render_wanted') => renders' = renders + 1]_vars
    /\ [][(pc = "recv" /\ bus = <<>> /\ pc' = "top")
            => (render_wanted
                /\ (renders' = renders + 1
                    \/ TillNextFrame(clock', last_render') = 0))]_vars

\* an iteration that took no event has ended with the second render or a later
\* one, which the frame budget had held back
C29_Witness ==
    pc = "top" /\ cycle_events = 0 /\ ~render_wanted /\ renders >= 2

\* C30: a signal the scheduler receives while Stopped is taken off the
\* control channel without a RequestStatusUpdate being emitted; a signal
\* other than Start leaves the scheduler Stopped, a Start makes it Running,
\* and nothing else makes it leave Stopped.
C30_StoppedDiscardsAllButStart ==
    [][/\ (rl_pc = "stopped" /\ Len(ctl') < Len(ctl))
            => /\ ctl' = Tail(ctl)
               /\ ticks' = ticks
               /\ sent' = sent
               /\ IF Head(ctl) = "Start" THEN Running(rl_pc') ELSE rl_pc' = "stopped"
       /\ (rl_pc = "stopped" /\ ~(Len(ctl') < Len(ctl))) => rl_pc' = "stopped"
      ]_vars

\* only Stops were sent after construction, and the scheduler, which never
\* ran, has taken every one of them and is still Stopped
C30_Witness ==
    rl_pc = "stopped" /\ ctl = <<>> /\ calls >= 2 /\ stop_pending /\ ticks = 0

\* C31: when stop() has been called on the Running scheduler and start() not
\* since, the scheduler's next check of the control channel moves it to
\* Stopped, so that at most one more RequestStatusUpdate follows the stop().
C31_StopEndsRunAtNextCheck ==
    [][(stop_pending /\ rl_pc = "try_recv" /\ rl_pc' # rl_pc) => rl_pc' = "stopped"]_vars

\* the scheduler has emitted nothing, holds no Start and is Stopped or about
\* to take the Stop that sends it there
QuietBeforeStart ==
    /\ ticks = 0
    /\ \A i \in 1..Len(ctl) : ctl[i] # "Start"
    /\ \/ rl_pc = "stopped"
       \/ rl_pc = "try_recv" /\ ctl # <<>> /\ Head(ctl) = "Stop"

\* RenderLoop::start has put its signal on the control channel in this step
StartSent == Len(ctl') = Len(ctl) + 1 /\ ctl'[Len(ctl')] = "Start"

\* C32: a scheduler created with an interval is quiet from its construction
\* until the first start() call: it emits no RequestStatusUpdate and is
\* Stopped as soon as its thread has taken the initial Stop.
C32_StoppedUntilFirstStart ==
    /\ event_tx => QuietBeforeStart
    /\ [][(event_tx /\ QuietBeforeStart /\ ~StartSent) => QuietBeforeStart']_vars

\* the thread has taken the initial Stop and no call has been made yet
C32_Witness ==
    event_tx /\ rl_pc = "stopped" /\ ctl = <<>> /\ calls = 0 /\ ticks = 0

\* C33: whenever the control channel is empty the scheduler is Running if
\* the last call was start() and Stopped if it was stop(), and after every
\* call the thread empties the channel unless a further call is made (as
\* long as the emissions explored allow the thread its iterations).
C33_LastSignalWins ==
    /\ [](event_tx /\ ctl = <<>> /\ last_call = "start" => Running(rl_pc))
    /\ [](event_tx /\ ctl = <<>> /\ last_call = "stop" => rl_pc = "stopped")
    /\ \A n \in 1..MaxCalls :
         (event_tx /\ calls = n /\ ticks + Len(ctl) <= MaxTicks) ~> (ctl = <<>> \/ calls > n)

\* start() and then stop() have been made, the scheduler has run in between
\* and has taken every signal
C33_Witness ==
    /\ event_tx /\ ctl = <<>> /\ last_call = "stop" /\ rl_pc = "stopped"
    /\ calls >= 2 /\ ticks >= 1

\* main_task finishes applying a Player idle event whose status refresh
\* failed (lib.rs 387)
PlayerRefreshFailed ==
    /\ pc = "session"
    /\ cur.kind = "IdleEvent"
    /\ cur.arg = "Player"
    /\ pc' # "session"
    /\ last_reply' = "Err"

\* C34: a Player idle event whose status refresh fails leaves the status
\* snapshot as it was and sends neither Start nor Stop; the UI is notified of
\* the Player event and a render is requested (performed at once or pending).
C34_FailedRefreshKeepsStatus ==
    [][PlayerRefreshFailed
         => /\ status' = status
            /\ ctl' = ctl
            /\ ui_event' = "Player"
            /\ (render_wanted' \/ renders' = renders + 1)]_vars

\* a first Player event set the snapshot to Play, the refresh of the second
\* failed and the snapshot is still Play
C34_Witness ==
    /\ applied["idle"] = 2 /\ applied["sched"] = 0
    /\ last_reply = "Err" /\ status = "Play" /\ ui_event = "Player" /\ pc = "top"

\* main_task finishes applying a RequestStatusUpdate (lib.rs 303-311)
StatusUpdateApplied ==
    pc = "session" /\ cur.kind = "RequestStatusUpdate" /\ pc' # "session"

\* C35: applying RequestStatusUpdate leaves the status snapshot unchanged
\* when get_status fails (and takes the fetched one otherwise), asks for a
\* render, and leaves the queue, the scheduler and the full-render flag alone:
\* the render stage of the same iteration finds render_wanted set and the
\* full-render flag as it was, so it either renders (fully exactly when the
\* flag was set) or leaves both as the arm left them.
C35_StatusUpdateEffect ==
    [][StatusUpdateApplied
         => /\ last_reply' = "Err" => status' = status
            /\ last_reply' \in {"Ok", "Err"}
            /\ queue' = queue
            /\ schedVars' = schedVars
            /\ \/ renders' = renders + 1 /\ lastRenderFull' = full_rerender_wanted
               \/ /\ renders' = renders
                  /\ render_wanted'
                  /\ full_rerender_wanted' = full_rerender_wanted]_vars

\* the only session request so far was a failed get_status for the
\* scheduler's event, made while a full render was pending: the snapshot is
\* the initial one and the full render is still pending
C35_Witness ==
    /\ pc = "top" /\ applied["sched"] >= 1
    /\ applied["input"] = 0 /\ applied["idle"] = 0 /\ applied["worker"] = 0
    /\ last_reply = "Err" /\ status = "Stop"
    /\ render_wanted /\ full_rerender_wanted

\* C36: the iteration in which a key or mouse handler returns SkipRender
\* performs no render and leaves both render flags as they were; a render
\* that was pending is still pending and is performed later (unless the
\* loop ends), nothing but a render clearing the flag.  The pending flag is
\* looked at while the clock can still run a frame budget.
C36_SkipRenderKeepsPending ==
    /\ [][(key_result' = "SkipRender" /\ key_result # "SkipRender")
            => /\ renders' = renders
               /\ render_wanted' = render_wanted
               /\ full_rerender_wanted' = full_rerender_wanted
               /\ pc' = "top"]_vars
    /\ [][(render_wanted /\ ~render_wanted') => renders' = renders + 1]_vars
    /\ (key_result = "SkipRender" /\ render_wanted /\ clock + min_frame_duration <= MaxClock)
          ~> (~render_wanted \/ LoopEnded)

\* the handler of this cycle returned SkipRender while a full render was
\* pending, and it still is
C36_Witness ==
    pc = "top" /\ key_result = "SkipRender" /\ render_wanted /\ full_rerender_wanted

\* C37: the iteration in which a handler returns Quit performs no render and
\* leaves the loop; from then on main_task takes no event from the bus and
\* performs no render, whatever is pending or queued.
C37_NothingAfterQuit ==
    /\ [][(key_result' = "Quit" /\ key_result # "Quit")
            => (renders' = renders /\ pc' = "exited")]_vars
    /\ [](key_result = "Quit" => pc \in {"exited", "end"})
    /\ [][(pc = "exited" \/ pc = "end")
            => /\ renders' = renders
               /\ applied' = applied
               /\ Len(bus') >= Len(bus)
               /\ render_wanted' = render_wanted
               /\ (pc' = "exited" \/ pc' = "end")]_vars

\* the loop was left with a render pending and events still on the bus
C37_Witness ==
    pc = "end" /\ key_result = "Quit" /\ render_wanted /\ Len(bus) >= 2

\* C38: with a modal open a key goes to the topmost modal only, never to the
\* screen or the global keybindings, and never yields Quit; a Modal(None)
\* from the modals' key handler removes the topmost modal and nothing else;
\* and whatever the Ui does, the stack changes by a push onto its top or a
\* pop off its top only.
C38_ModalStackIsLifo ==
    /\ [][(UiHandleKey /\ modals # <<>>)
            => /\ key_target' = "modal"
               /\ key_depth' = Len(modals)
               /\ ui_result' # "Quit"
               /\ (modals' = modals \/ modals' = SubSeq(modals, 1, Len(modals) - 1))]_vars
    /\ [][\/ modals' = modals
          \/ \E k \in ModalKinds : modals' = Append(modals, k)
          \/ modals # <<>> /\ modals' = SubSeq(modals, 1, Len(modals) - 1)]_vars
    /\ [](ui_result = "Quit" => key_target = "global")

\* a key went to the second, topmost, modal, which asked to be closed: the
\* first modal is left
C38_Witness ==
    /\ Len(modals) = 1 /\ key_target = "modal" /\ key_depth = 2
    /\ ui_result = "RenderRequested" /\ ev_screen = 0

\* C39: the path of the albums screen's stack has length 0 or 1 whatever
\* next, add and before_show are called; a next in the album list that
\* returns RenderRequested with an album selected enters exactly that album,
\* and otherwise leaves the stack alone; a next inside an album never pushes,
\* and when it returns RenderRequested it has sent a find_add for the selected
\* title of that album.
C39_AlbumsStackAtMostOneDeep ==
    /\ [](Len(alb_path) <= 1)
    /\ [][(AlbumsNext /\ alb_path = <<>>)
            => IF alb_selected # "none" /\ alb_last'.res = "RenderRequested"
               THEN alb_path' = <<alb_selected>> /\ alb_adds' = alb_adds
               ELSE alb_path' = alb_path /\ alb_selected' = alb_selected]_vars
    /\ [][(AlbumsNext /\ Len(alb_path) = 1)
            => /\ alb_path' = alb_path /\ alb_selected' = alb_selected
               /\ (alb_selected # "none" /\ alb_last'.res = "RenderRequested")
                    => /\ alb_added' = [title |-> alb_selected, album |-> alb_path[1]]
                       /\ alb_adds' = alb_adds + 1]_vars
    /\ [][(AlbumsAdd \/ AlbumsBeforeShow) => alb_path' = alb_path]_vars

\* inside album2, reached by next from the album list, a second next has
\* added title1 of album2 to the queue
C39_Witness ==
    /\ alb_path = <<"album2">> /\ alb_selected = "title1"
    /\ alb_last = [op |-> "next", depth |-> 1, res |-> "RenderRequested"]
    /\ alb_added = [title |-> "title1", album |-> "album2"] /\ alb_adds = 1

\* C40: a find_album_art call invokes albumart once and first; it goes on to
\* read_picture, once, exactly when albumart returned Ok(None) or failed with
\* NoExist, and sends nothing more after image data or any other error.
C40_ReadPictureOnlyAsFallback ==
    last_find # NoFind =>
        /\ last_find.sent \in {<<"albumart">>, <<"albumart", "read_picture">>}
        /\ (last_find.sent = <<"albumart", "read_picture">>)
              <=> (last_find.albumart \in {"None", "NoExist"})
        /\ (last_find.albumart \in {"Some", "Err"})
              => (last_find.sent = <<"albumart">> /\ last_find.read_picture = "not_called")

\* albumart failed with NoExist and the read_picture sent after it found the
\* picture
C40_Witness ==
    /\ last_find.albumart = "NoExist" /\ last_find.read_picture = "Some"
    /\ last_find.sent = <<"albumart", "read_picture">> /\ last_find.result = "Some"

====
